---- MODULE Spec2Model ----
(***************************************************************************)
(* graphql-helper: composition of GraphQL documents from tagged template   *)
(* strings.  The repository holds two implementations of the library:      *)
(*   "SrcJs"     src/src.js               (configure/request, callables)   *)
(*   "Literate"  src/unnamed/part_002     (pure document builder)          *)
(* A process imports one of them; `impl` records which.                    *)
(*                                                                         *)
(* Strings are sequences of tokens (a token is a character or a fixed      *)
(* piece of text), so `+` and template interpolation are \o.  JavaScript   *)
(* objects used as string maps are sequences of <<key, value>> pairs in    *)
(* insertion order.  Built values live in `heap`; a reference is an index. *)
(* Every built value keeps `values`, the interpolations its template       *)
(* closure captured.                                                       *)
(***************************************************************************)
EXTENDS Naturals, Integers, Sequences, FiniteSets, TLC

VARIABLES
  impl,                  \* which implementation the process imported
  gqlHost,               \* src.js: module-level configuration
  gqlHeaders,
  gqlIgnoreInvariants,
  gqlClientMutationId,
  operationDefinitions,  \* src.js: operation registry (name -> ref)
  fragmentDefinitions,   \* src.js: fragment registry (name -> ref)
  definitions,           \* part_002: [operations, fragments] registries
  IGNORE_INVARIANTS,     \* part_002: __IGNORE_INVARIANTS__
  heap,                  \* every value built so far, in creation order
  closures,              \* first-stage results (tag functions) still held
  calls,                 \* invocations of built callables (futures)
  idCalls,               \* number of calls made to the id generator
  documents,             \* part_002: the Documents built by document(ops)
  last                   \* the most recent builder call that ended, and how

vars == << impl, gqlHost, gqlHeaders, gqlIgnoreInvariants, gqlClientMutationId,
           operationDefinitions, fragmentDefinitions, definitions,
           IGNORE_INVARIANTS, heap, closures, calls, idCalls, documents,
           last >>

----------------------------------------------------------------------------
(* Bounds *)

MaxObjs == 4
MaxComposed == 3
MaxVals == 2
MaxClosures == 1
MaxCalls == 2
MaxDocs == 1
MaxBatches == 1

----------------------------------------------------------------------------
(* Input domains *)

Undefined == <<"undefined">>
Lits == { "id" }
RawValues == { <<"10">> }
NoVarsDef == [given |-> FALSE, map |-> <<>>]

----------------------------------------------------------------------------
(* JavaScript string maps: sequences of <<key, value>> in insertion order *)

Keys(m) == { m[i][1] : i \in DOMAIN m }

Has(m, k) == k \in Keys(m)

Get(m, k) == m[CHOOSE i \in DOMAIN m : m[i][1] = k][2]

\* a list of entries where a map was meant: every write adds an entry
Put_AppendAlways(m, k, v) == Append(m, <<k, v>>)

\* m[k] = v : an existing key keeps its position and takes the new value
Put(m, k, v) ==
  IF Has(m, k)
    THEN [i \in DOMAIN m |-> IF m[i][1] = k THEN <<k, v>> ELSE m[i]]
    ELSE Append(m, <<k, v>>)

\* an assign that keeps what the target already holds
RECURSIVE ObjectAssign_KeepFirst(_, _)
ObjectAssign_KeepFirst(acc, src) ==
  IF src = <<>> THEN acc
  ELSE ObjectAssign_KeepFirst(
         IF Has(acc, src[1][1]) THEN acc ELSE Append(acc, src[1]), Tail(src))

RECURSIVE ObjectAssign(_, _)
ObjectAssign(acc, src) ==
  IF src = <<>> THEN acc
  ELSE ObjectAssign(Put(acc, src[1][1], src[1][2]), Tail(src))

valuesOf(m) == [i \in DOMAIN m |-> m[i][2]]

RECURSIVE join(_, _)
join(strs, sep) ==
  IF strs = <<>> THEN <<>>
  ELSE IF Len(strs) = 1 THEN strs[1]
  ELSE strs[1] \o sep \o join(Tail(strs), sep)

----------------------------------------------------------------------------
(* General utils *)

Upper(c) ==
  CASE c = "a" -> "A" [] c = "b" -> "B" [] c = "c" -> "C" [] c = "p" -> "P"
    [] OTHER -> c

\* the name left as it was given
capitalize_Unchanged(s) == s

capitalize(s) == <<Upper(s[1])>> \o Tail(s)

Truthy(x) == x \notin { "undefined", "null", "false" }

\* an invariant whose ignore flag is read the wrong way round
invariantThrows_FlagInverted(ignore, condition) == Truthy(ignore) /\ ~condition

\* an invariant that never looks at the ignore flag
invariantThrows_FlagUnread(ignore, condition) == ~condition

\* invariant(condition, message) throws unless invariants are ignored
invariantThrows(ignore, condition) == ~Truthy(ignore) /\ ~condition

----------------------------------------------------------------------------
(* Interpolated values: a reference into the heap, or a raw value *)

Ref(i) == [ref |-> i, raw |-> <<>>]
Raw(s) == [ref |-> 0, raw |-> s]

\* what a template interpolates: up to MaxVals of the built values `refs`,
\* or one raw value
ValueLists(refs) ==
  UNION { [1..k -> { Ref(i) : i \in refs }] : k \in 0..MaxVals }
    \cup { << Raw(s) >> : s \in RawValues }

\* the literal pieces of a template with n interpolations
Target(lit, n) ==
  [i \in 1..(n + 1) |->
     IF n = 0 THEN <<"{ ", lit, " }">>
     ELSE IF i = 1 THEN <<"{ ", lit, " ">>
     ELSE IF i = n + 1 THEN <<" }">> ELSE <<" ">>]

PartialTarget(lit, n) ==
  [i \in 1..(n + 1) |->
     IF i = 1 THEN <<lit, " ">> ELSE <<" ">>]

\* String(value): toString of a built value, the text of a raw one
ToStr(h, v) == IF v.ref = 0 THEN v.raw ELSE h[v.ref].str

RECURSIVE StringRaw(_, _, _)
StringRaw(h, target, values) ==
  IF values = <<>> THEN target[1]
  ELSE target[1] \o ToStr(h, values[1]) \o StringRaw(h, Tail(target), Tail(values))

----------------------------------------------------------------------------
(* src.js: query partial utils *)

QUERY_PARTIAL == "__GRAPHQL_QUERY_PARTIAL__"

\* asPartial(x): x itself when it carries the partial marker, else null;
\* the result here is whether a partial comes back
asPartial(h, v) == v.ref # 0 /\ QUERY_PARTIAL \in h[v.ref].marks

RECURSIVE mergeReduce(_, _, _)
mergeReduce(h, acc, values) ==
  IF values = <<>> THEN acc
  ELSE mergeReduce(h, ObjectAssign(acc, h[values[1].ref].fragments), Tail(values))

mergeFragments(h, values) ==
  mergeReduce(h, <<>>, SelectSeq(values, LAMBDA v : asPartial(h, v)))

\* parentheses even around nothing
wrapParens_Always(str) == <<"(">> \o str \o <<")">>

wrapParens(str) == IF str # <<>> THEN <<"(">> \o str \o <<")">> ELSE <<>>

\* runMaybe(varsDef, v => Object.keys(v).map(k => `$${k}:${v[k]}`).join(','))
queryParams(varsDef) ==
  IF varsDef.given
    THEN join([i \in DOMAIN varsDef.map |->
                 <<"$", varsDef.map[i][1], ":", varsDef.map[i][2]>>], <<",">>)
    ELSE <<>>

----------------------------------------------------------------------------
(* The most recent builder call that ended, with a value or by throwing *)

Outcome(call, status, ref, name, args) ==
  [call |-> call, status |-> status, ref |-> ref, name |-> name, args |-> args]

Hold(c) == Cardinality(closures \cup {c}) <= MaxClosures

\* after the template is applied the caller keeps the tag function or not
Retain(c, keep) == IF keep THEN closures ELSE closures \ {c}

----------------------------------------------------------------------------
(* src.js: configure *)

noId == "noId"

configure(host, headers, ignoreInvariants, clientMutationId) ==
  /\ impl = "SrcJs"
  /\ gqlHost' = host
  /\ gqlHeaders' = ObjectAssign(<< <<"Content-Type", "application/json">> >>,
                               headers)
  /\ gqlIgnoreInvariants' =
       IF ignoreInvariants = "undefined" THEN "false" ELSE ignoreInvariants
  /\ gqlClientMutationId' =
       IF clientMutationId = "undefined" THEN noId ELSE clientMutationId
  /\ UNCHANGED << impl, documents, operationDefinitions, fragmentDefinitions, definitions,
                  IGNORE_INVARIANTS, heap, closures, calls, idCalls, last >>

----------------------------------------------------------------------------
(* src.js: fragment(name, type = name) and the template it awaits *)

SrcFragmentTag(name, typeArg) ==
  [lib |-> "SrcJs", fn |-> "fragment", name |-> name,
   type |-> IF typeArg = Undefined THEN name ELSE typeArg]

SrcFragment1(name, typeArg) ==
  /\ impl = "SrcJs"
  /\ Hold(SrcFragmentTag(name, typeArg))
  /\ closures' = closures \cup { SrcFragmentTag(name, typeArg) }
  /\ UNCHANGED << impl, documents, gqlHost, gqlHeaders, gqlIgnoreInvariants,
                  gqlClientMutationId, operationDefinitions,
                  fragmentDefinitions, definitions, IGNORE_INVARIANTS, heap,
                  calls, idCalls, last >>

\* a fragment that forgets to add its own definition to the merged map
SrcFragmentValue_NoOwnEntry(h, c, lit, values) ==
  [marks |-> { QUERY_PARTIAL, "__GRAPHQL_FRAGMENT__" },
   name |-> c.name,
   type |-> c.type,
   str |-> <<"...">> \o c.name,
   values |-> values,
   fragments |-> mergeFragments(h, values)]

SrcFragmentValue(h, c, lit, values) ==
  [marks |-> { QUERY_PARTIAL, "__GRAPHQL_FRAGMENT__" },
   name |-> c.name,
   type |-> c.type,
   str |-> <<"...">> \o c.name,
   values |-> values,
   fragments |->
     Put(mergeFragments(h, values), c.name,
         <<"fragment ">> \o c.name \o <<" on ">> \o c.type \o <<" ">>
           \o StringRaw(h, Target(lit, Len(values)), values))]

SrcFragment2(c, lit, values, keep) ==
  /\ impl = "SrcJs"
  /\ c \in closures /\ c.lib = "SrcJs" /\ c.fn = "fragment"
  /\ IF invariantThrows(gqlIgnoreInvariants, ~Has(fragmentDefinitions, c.name))
       THEN /\ last' = Outcome("fragment", "throw", 0, c.name, <<>>)
            /\ UNCHANGED << heap, fragmentDefinitions >>
       ELSE /\ Len(heap) < MaxObjs
            /\ heap' = Append(heap, SrcFragmentValue(heap, c, lit, values))
            /\ fragmentDefinitions' =
                 Put(fragmentDefinitions, c.name, Len(heap) + 1)
            /\ last' = Outcome("fragment", "ok", Len(heap) + 1, c.name, values)
  /\ closures' = Retain(c, keep)
  /\ UNCHANGED << impl, documents, gqlHost, gqlHeaders, gqlIgnoreInvariants,
                  gqlClientMutationId, operationDefinitions, definitions,
                  IGNORE_INVARIANTS, calls, idCalls >>

----------------------------------------------------------------------------------------------------------------------------------------------
(* src.js: query(name, varsDef)`...` and mutation(name, varsDef)`...`.     *)
(* The first stage only computes strings from its arguments (params,       *)
(* capitalized, inputType, payloadType) and touches no state, so the two   *)
(* stages are one step.                                                    *)

\* a callable whose text leaves its fragments out
SrcOperationValue_NoFragments(mark, name, operation, fragments, values) ==
  [marks |-> { mark },
   operationName |-> name,
   operation |-> operation,
   fragments |-> fragments,
   queryString |-> operation,
   values |-> values,
   str |-> operation]

SrcOperationValue(mark, name, operation, fragments, values) ==
  LET queryString == operation \o <<" ">> \o join(valuesOf(fragments), <<" ">>)
  IN  [marks |-> { mark },
       operationName |-> name,
       operation |-> operation,
       fragments |-> fragments,
       queryString |-> queryString,
       values |-> values,
       str |-> queryString]

\* varsDef is kept beside the callable's properties, as `values` is
SrcQueryValue(h, name, varsDef, lit, values) ==
  LET q == SrcOperationValue("__GRAPHQL_QUERY__", name,
             <<"query ">> \o name \o <<" ">> \o wrapParens(queryParams(varsDef))
               \o <<" ">> \o StringRaw(h, Target(lit, Len(values)), values),
             mergeFragments(h, values), values)
  IN  [marks |-> q.marks, operationName |-> q.operationName,
       operation |-> q.operation, fragments |-> q.fragments,
       queryString |-> q.queryString, values |-> q.values, str |-> q.str,
       varsDef |-> varsDef]

SrcQuery(name, varsDef, lit, values) ==
  /\ impl = "SrcJs"
  /\ IF invariantThrows(gqlIgnoreInvariants, ~Has(operationDefinitions, name))
       THEN /\ last' = Outcome("query", "throw", 0, name, <<>>)
            /\ UNCHANGED << heap, operationDefinitions >>
       ELSE /\ Len(heap) < MaxObjs
            /\ heap' = Append(heap, SrcQueryValue(heap, name, varsDef, lit, values))
            /\ operationDefinitions' =
                 Put(operationDefinitions, name, Len(heap) + 1)
            /\ last' = Outcome("query", "ok", Len(heap) + 1, name, values)
  /\ UNCHANGED << impl, documents, gqlHost, gqlHeaders, gqlIgnoreInvariants,
                  gqlClientMutationId, fragmentDefinitions, definitions,
                  IGNORE_INVARIANTS, closures, calls, idCalls >>

SrcMutationValue(h, name, lit, values) ==
  LET capitalized == capitalize(name)
      inputType == capitalized \o <<"Input">>
      payloadType == capitalized \o <<"Payload">>
  IN  SrcOperationValue("__GRAPHQL_MUTATION__", capitalized,
        <<"mutation ">> \o capitalized \o <<"($input: ">> \o inputType
          \o <<"!)", "{\n      ", "payload: ">> \o name
          \o <<"(input: $input)", " {\n        clientMutationId\n        ... on ">>
          \o payloadType
          \o <<" ">> \o StringRaw(h, Target(lit, Len(values)), values)
          \o <<"\n      }\n    }">>,
        mergeFragments(h, values), values)

SrcMutation(name, varsDef, lit, values) ==
  /\ impl = "SrcJs"
  /\ IF invariantThrows(gqlIgnoreInvariants,
                        ~Has(operationDefinitions, capitalize(name)))
       THEN /\ last' = Outcome("mutation", "throw", 0, name, <<>>)
            /\ UNCHANGED << heap, operationDefinitions >>
       ELSE /\ Len(heap) < MaxObjs
            /\ heap' = Append(heap, SrcMutationValue(heap, name, lit, values))
            /\ operationDefinitions' =
                 Put(operationDefinitions, capitalize(name), Len(heap) + 1)
            /\ last' = Outcome("mutation", "ok", Len(heap) + 1, name, values)
  /\ UNCHANGED << impl, documents, gqlHost, gqlHeaders, gqlIgnoreInvariants,
                  gqlClientMutationId, fragmentDefinitions, definitions,
                  IGNORE_INVARIANTS, closures, calls, idCalls >>

----------
(* src.js: partial and union *)

\* a partial that drops the fragments of what it interpolates
PartialValue_NoFragments(h, lit, values) ==
  [marks |-> { QUERY_PARTIAL },
   str |-> StringRaw(h, PartialTarget(lit, Len(values)), values),
   values |-> values,
   fragments |-> <<>>]

PartialValue(h, lit, values) ==
  [marks |-> { QUERY_PARTIAL },
   str |-> StringRaw(h, PartialTarget(lit, Len(values)), values),
   values |-> values,
   fragments |-> mergeFragments(h, values)]

\* a partial that enters itself in the fragment registry
partial_Registered(lit, values) ==
  /\ impl = "SrcJs"
  /\ Len(heap) < MaxObjs
  /\ heap' = Append(heap, PartialValue(heap, lit, values))
  /\ fragmentDefinitions' = Put(fragmentDefinitions, lit, Len(heap) + 1)
  /\ last' = Outcome("partial", "ok", Len(heap) + 1, <<>>, values)
  /\ UNCHANGED << impl, documents, gqlHost, gqlHeaders, gqlIgnoreInvariants,
                  gqlClientMutationId, operationDefinitions, definitions,
                  IGNORE_INVARIANTS, closures, calls, idCalls >>

\* a partial whose merge accumulates into the mapping of its first input
partial_SharedAccumulator(lit, values) ==
  /\ impl = "SrcJs"
  /\ Len(heap) < MaxObjs
  /\ heap' =
       Append(IF values # <<>> /\ asPartial(heap, values[1])
                THEN [heap EXCEPT ![values[1].ref].fragments =
                                    mergeFragments(heap, values)]
                ELSE heap,
              PartialValue(heap, lit, values))
  /\ last' = Outcome("partial", "ok", Len(heap) + 1, <<>>, values)
  /\ UNCHANGED << impl, documents, gqlHost, gqlHeaders, gqlIgnoreInvariants,
                  gqlClientMutationId, operationDefinitions,
                  fragmentDefinitions, definitions, IGNORE_INVARIANTS,
                  closures, calls, idCalls >>

partial(lit, values) ==
  /\ impl = "SrcJs"
  /\ Len(heap) < MaxObjs
  /\ heap' = Append(heap, PartialValue(heap, lit, values))
  /\ last' = Outcome("partial", "ok", Len(heap) + 1, <<>>, values)
  /\ UNCHANGED << impl, documents, gqlHost, gqlHeaders, gqlIgnoreInvariants,
                  gqlClientMutationId, operationDefinitions,
                  fragmentDefinitions, definitions, IGNORE_INVARIANTS,
                  closures, calls, idCalls >>

\* a union that spreads its members in reverse
UnionValue_Reversed(h, partials) ==
  [marks |-> { QUERY_PARTIAL },
   str |-> <<"__typename ">>
             \o join([i \in DOMAIN partials |->
                        ToStr(h, partials[Len(partials) + 1 - i])], <<" ">>),
   values |-> partials,
   fragments |-> mergeFragments(h, partials)]

UnionValue(h, partials) ==
  [marks |-> { QUERY_PARTIAL },
   str |-> <<"__typename ">>
             \o join([i \in DOMAIN partials |-> ToStr(h, partials[i])], <<" ">>),
   values |-> partials,
   fragments |-> mergeFragments(h, partials)]

union(partials) ==
  /\ impl = "SrcJs"
  /\ \A i \in DOMAIN partials : asPartial(heap, partials[i])
  /\ Len(heap) < MaxObjs
  /\ heap' = Append(heap, UnionValue(heap, partials))
  /\ last' = Outcome("union", "ok", Len(heap) + 1, <<>>, partials)
  /\ UNCHANGED << impl, documents, gqlHost, gqlHeaders, gqlIgnoreInvariants,
                  gqlClientMutationId, operationDefinitions,
                  fragmentDefinitions, definitions, IGNORE_INVARIANTS,
                  closures, calls, idCalls >>

----------------------------------------------------------------------------
(* part_002: helpers *)

FRAGMENT == "__GRAPHQL_FRAGMENT__"

isFragment(h, v) == v.ref # 0 /\ FRAGMENT \in h[v.ref].marks

\* values.reduce((acc, val) => { if fragment: acc[name] = val; assign }, {})
RECURSIVE LitMergeReduce(_, _, _)
LitMergeReduce(h, acc, values) ==
  IF values = <<>> THEN acc
  ELSE LitMergeReduce(h,
         IF isFragment(h, values[1])
           THEN ObjectAssign(Put(acc, h[values[1].ref].name, values[1].ref),
                             h[values[1].ref].fragments)
           ELSE acc,
         Tail(values))

LitMergeFragments(h, values) == LitMergeReduce(h, <<>>, values)

parenthesize(str) == <<"(">> \o str \o <<")">>

printVariablesDef(def) ==
  IF Len(def) # 0
    THEN parenthesize(join([i \in DOMAIN def |->
                              <<"$", def[i][1], ": ", def[i][2]>>], <<", ">>))
    ELSE <<>>

\* Object.keys(map).map(key => map[key].definition).join("\n\n")
definitionsOf(h, map) ==
  join([i \in DOMAIN map |-> h[map[i][2]].definition], <<"\n\n">>)

ignoreInvariants ==
  /\ impl = "Literate"
  /\ IGNORE_INVARIANTS' = "true"
  /\ UNCHANGED << impl, documents, gqlHost, gqlHeaders, gqlIgnoreInvariants,
                  gqlClientMutationId, operationDefinitions,
                  fragmentDefinitions, definitions, heap, closures, calls,
                  idCalls, last >>

----------------------------------------------------------------------------
(* part_002: fragment(name, on = name) and the template it awaits *)

LitFragmentTag(name, onArg) ==
  [lib |-> "Literate", fn |-> "fragment", name |-> name,
   on |-> IF onArg = Undefined THEN name ELSE onArg]

LitFragment1(name, onArg) ==
  /\ impl = "Literate"
  /\ IF invariantThrows(IGNORE_INVARIANTS, ~Has(definitions.fragments, name))
       THEN /\ last' = Outcome("fragment1", "throw", 0, name, <<>>)
            /\ UNCHANGED closures
       ELSE /\ Hold(LitFragmentTag(name, onArg))
            /\ closures' = closures \cup { LitFragmentTag(name, onArg) }
            /\ UNCHANGED last
  /\ UNCHANGED << impl, documents, gqlHost, gqlHeaders, gqlIgnoreInvariants,
                  gqlClientMutationId, operationDefinitions,
                  fragmentDefinitions, definitions, IGNORE_INVARIANTS, heap,
                  calls, idCalls >>

LitFragmentValue(h, c, lit, values) ==
  [marks |-> { FRAGMENT },
   name |-> c.name,
   on |-> c.on,
   definition |-> <<"fragment ">> \o c.name \o <<" on ">> \o c.on \o <<" ">>
                    \o StringRaw(h, Target(lit, Len(values)), values),
   fragments |-> LitMergeFragments(h, values),
   values |-> values,
   str |-> <<"...">> \o c.name]

LitFragment2(c, lit, values, keep) ==
  /\ impl = "Literate"
  /\ c \in closures /\ c.lib = "Literate" /\ c.fn = "fragment"
  /\ Len(heap) < MaxObjs
  /\ heap' = Append(heap, LitFragmentValue(heap, c, lit, values))
  /\ definitions' =
       [definitions EXCEPT !.fragments = Put(@, c.name, Len(heap) + 1)]
  /\ last' = Outcome("fragment", "ok", Len(heap) + 1, c.name, values)
  /\ closures' = Retain(c, keep)
  /\ UNCHANGED << impl, documents, gqlHost, gqlHeaders, gqlIgnoreInvariants,
                  gqlClientMutationId, operationDefinitions,
                  fragmentDefinitions, IGNORE_INVARIANTS, calls, idCalls >>

----------------------------------------------------------------------------------------------------------------------------------------------
(* part_002: query(name, variablesDef = {})`...` and mutation likewise.    *)
(* The first stage checks definitions.operations, the second builds the    *)
(* value; neither writes a registry, so the two stages are one step.       *)

LitOperationValue(h, mark, name, variablesDef, definition, values) ==
  LET fragments == LitMergeFragments(h, values)
      document == definition \o <<"\n\n">> \o definitionsOf(h, fragments)
  IN  [marks |-> { mark },
       name |-> name,
       variablesDef |-> variablesDef,
       definition |-> definition,
       document |-> document,
       fragments |-> fragments,
       values |-> values,
       str |-> document]

DefaultVarsDef(varsDef) == IF varsDef.given THEN varsDef.map ELSE <<>>

LitQueryValue(h, name, varsDef, lit, values) ==
  LitOperationValue(h, "__GRAPHQL_QUERY__", name, DefaultVarsDef(varsDef),
    <<"query ">> \o name \o printVariablesDef(DefaultVarsDef(varsDef))
      \o <<" ">> \o StringRaw(h, Target(lit, Len(values)), values),
    values)

LitMutationValue(h, name, varsDef, lit, values) ==
  LitOperationValue(h, "__GRAPHQL_MUTATION__", name, DefaultVarsDef(varsDef),
    <<"mutation ">> \o capitalize(name) \o <<"($input: ">> \o capitalize(name)
      \o <<"Input", "!)", " {\n  ", "payload: ">> \o name
      \o <<"(input: $input)", " ">>
      \o StringRaw(h, Target(lit, Len(values)), values) \o <<"\n}">>,
    values)

LitOperation(call, name, value, values) ==
  /\ impl = "Literate"
  /\ IF invariantThrows(IGNORE_INVARIANTS, ~Has(definitions.operations, name))
       THEN /\ last' = Outcome(call, "throw", 0, name, <<>>)
            /\ UNCHANGED heap
       ELSE /\ Len(heap) < MaxObjs
            /\ heap' = Append(heap, value)
            /\ last' = Outcome(call, "ok", Len(heap) + 1, name, values)
  /\ UNCHANGED << impl, documents, gqlHost, gqlHeaders, gqlIgnoreInvariants,
                  gqlClientMutationId, operationDefinitions,
                  fragmentDefinitions, definitions, IGNORE_INVARIANTS,
                  closures, calls, idCalls >>

LitQuery(name, varsDef, lit, values) ==
  LitOperation("query", name, LitQueryValue(heap, name, varsDef, lit, values),
               values)

LitMutation(name, varsDef, lit, values) ==
  LitOperation("mutation", name,
               LitMutationValue(heap, name, varsDef, lit, values), values)

----------------------------------------------------------------------------
(* part_002: document *)

\* ops.reduce((acc, op) => { acc[op.name] = op; return acc }, {})
RECURSIVE DocOperations(_, _, _)
DocOperations(h, acc, ops) ==
  IF ops = <<>> THEN acc
  ELSE DocOperations(h, Put(acc, h[ops[1]].name, ops[1]), Tail(ops))

\* a fragments map that lists every operation's fragments one after another
RECURSIVE DocFragments_PerOperation(_, _, _)
DocFragments_PerOperation(h, acc, ops) ==
  IF ops = <<>> THEN acc
  ELSE DocFragments_PerOperation(h, acc \o h[ops[1]].fragments, Tail(ops))

\* ops.reduce((acc, op) => Object.assign(acc, op.fragments), {})
RECURSIVE DocFragments(_, _, _)
DocFragments(h, acc, ops) ==
  IF ops = <<>> THEN acc
  ELSE DocFragments(h, ObjectAssign(acc, h[ops[1]].fragments), Tail(ops))

DocumentValue(h, ops) ==
  LET operations == DocOperations(h, <<>>, ops)
      fragments == DocFragments(h, <<>>, ops)
      text == definitionsOf(h, operations) \o <<"\n\n">>
                \o definitionsOf(h, fragments)
  IN  [document |-> text, operations |-> operations, fragments |-> fragments,
       ops |-> ops, str |-> text]

document(ops) ==
  /\ impl = "Literate"
  /\ Len(documents) < MaxDocs
  /\ documents' = Append(documents, DocumentValue(heap, ops))
  /\ UNCHANGED << impl, gqlHost, gqlHeaders, gqlIgnoreInvariants,
                  gqlClientMutationId, operationDefinitions,
                  fragmentDefinitions, definitions, IGNORE_INVARIANTS, heap,
                  closures, calls, idCalls, last >>

----------------------------------------------------------------------------
(* JavaScript values that cross the transport: a type, the name of the     *)
(* value under the key payload (of an object), the items (of an array)     *)

JsValue(type, payload, items) ==
  [type |-> type, payload |-> payload, items |-> items]

JsUndefined == JsValue("undefined", "undefined", <<>>)
JsNull == JsValue("null", "undefined", <<>>)
TypeError == JsValue("TypeError", "undefined", <<>>)
FetchError == JsValue("FetchError", "undefined", <<>>)
SyntaxError == JsValue("SyntaxError", "undefined", <<>>)

\* how the transport itself fails: fetch rejects, or r.json() finds no JSON
Failures == { FetchError, SyntaxError }

\* the value an object holds under the key payload
PayloadOf(d) ==
  IF d.payload = "undefined" THEN JsUndefined
                             ELSE JsValue("object", "undefined", <<d.payload>>)

\* what the server may answer: data and errors of the parsed JSON
Datas == { JsNull, JsValue("object", "P", <<>>) }
Errors == { JsUndefined, JsNull, JsValue("array", "undefined", <<>>),
            JsValue("array", "undefined", <<"x">>) }
Responses == [data : Datas, errors : Errors]

\* the variables a caller passes to a callable: none, or an object
Variables == { [given |-> FALSE, map |-> <<>>],
               [given |-> TRUE, map |-> << <<"key", "k1">> >>],
               [given |-> TRUE, map |-> << <<"clientMutationId", "mine">> >>] }

\* JSON.stringify of an object of strings
StringifyMap(m) ==
  <<"{">> \o join([i \in DOMAIN m |->
                    <<"\"", m[i][1], "\":\"", m[i][2], "\"">>], <<",">>)
    \o <<"}">>

\* JSON.stringify(variables): null, an object, or { input: object }
Stringify(v) ==
  CASE v.kind = "null" -> <<"null">>
    [] v.kind = "object" -> StringifyMap(v.map)
    [] v.kind = "input" -> <<"{\"input\":">> \o StringifyMap(v.map) \o <<"}">>

\* a future and the request behind it
Call(kind, op, host, headers, query, variables, status, value) ==
  [kind |-> kind, op |-> op, host |-> host, headers |-> headers,
   query |-> query, variables |-> variables,
   body |-> [query |-> query, variables |-> Stringify(variables),
             operations |-> [given |-> FALSE, names |-> <<>>]],
   response |-> [state |-> "none", data |-> JsUndefined, errors |-> JsUndefined],
   fetches |-> 0, failure |-> JsUndefined, ops |-> <<>>,
   status |-> status, value |-> value]

\* fetch(url, { method, headers, body }) has been called for the request
Fetch(call) == [call EXCEPT !.fetches = @ + 1]

----------------------------------------------------------------------------
(* src.js: the callables of query and mutation, request *)

\* request(query, variables = null): fetch(gqlHost, { headers, body })
request(kind, op, query, variables) ==
  Fetch(Call(kind, op, gqlHost, gqlHeaders, query, variables, "pending",
             JsUndefined))

\* a callable that reads its fragments from the registry when it is invoked
SrcInvokeQuery_LiveFragments(i, variables) ==
  /\ impl = "SrcJs"
  /\ i \in DOMAIN heap /\ "__GRAPHQL_QUERY__" \in heap[i].marks
  /\ Len(calls) < MaxCalls
  /\ calls' = Append(calls,
       request("query", i,
               heap[i].operation \o <<" ">>
                 \o join([k \in DOMAIN heap[i].fragments |->
                           Get(heap[Get(fragmentDefinitions,
                                        heap[i].fragments[k][1])].fragments,
                               heap[i].fragments[k][1])], <<" ">>),
               IF variables.given THEN [kind |-> "object", map |-> variables.map]
                             ELSE [kind |-> "null", map |-> <<>>]))
  /\ UNCHANGED << impl, documents, gqlHost, gqlHeaders, gqlIgnoreInvariants,
                  gqlClientMutationId, operationDefinitions,
                  fragmentDefinitions, definitions, IGNORE_INVARIANTS, heap,
                  closures, idCalls, last >>

SrcInvokeQuery(i, variables) ==
  /\ impl = "SrcJs"
  /\ i \in DOMAIN heap /\ "__GRAPHQL_QUERY__" \in heap[i].marks
  /\ Len(calls) < MaxCalls
  /\ calls' = Append(calls,
       request("query", i, heap[i].queryString,
               IF variables.given THEN [kind |-> "object", map |-> variables.map]
                             ELSE [kind |-> "null", map |-> <<>>]))
  /\ UNCHANGED << impl, documents, gqlHost, gqlHeaders, gqlIgnoreInvariants,
                  gqlClientMutationId, operationDefinitions,
                  fragmentDefinitions, definitions, IGNORE_INVARIANTS, heap,
                  closures, idCalls, last >>

\* the id generator given to configure, or noId
Generate(generator, n) ==
  IF generator = noId THEN "No ID Provided" ELSE "id" \o ToString(n + 1)

\* an input object whose id is missing
SrcMutationInput_NoId(id, variables) == variables.map

\* { clientMutationId: gqlClientMutationId(), ...variables }
SrcMutationInput(id, variables) ==
  ObjectAssign(<< <<"clientMutationId", id>> >>, variables.map)

SrcInvokeMutation(i, variables) ==
  /\ impl = "SrcJs"
  /\ i \in DOMAIN heap /\ "__GRAPHQL_MUTATION__" \in heap[i].marks
  /\ Len(calls) < MaxCalls
  /\ IF gqlClientMutationId = "undefined"
       THEN \* gqlClientMutationId() of undefined: a TypeError, no request
            /\ calls' = Append(calls,
                 Call("mutation", i, "undefined", <<>>, <<>>,
                      [kind |-> "null", map |-> <<>>], "threw", TypeError))
            /\ UNCHANGED idCalls
       ELSE /\ idCalls' = idCalls + 1
            /\ calls' = Append(calls,
                 request("mutation", i, heap[i].queryString,
                   [kind |-> "input",
                    map |-> SrcMutationInput(
                              Generate(gqlClientMutationId, idCalls), variables)]))
  /\ UNCHANGED << impl, documents, gqlHost, gqlHeaders, gqlIgnoreInvariants,
                  gqlClientMutationId, operationDefinitions,
                  fragmentDefinitions, definitions, IGNORE_INVARIANTS, heap,
                  closures, last >>

----------------------------------------------------------------------------
(* src.js: batch(ops, variables) *)

\* asPartial(x) of a plain string map: x.__GRAPHQL_QUERY_PARTIAL__ is the
\* value under that key, truthy only when the map has it
asPartialMap(m) == Has(m, <<QUERY_PARTIAL>>)

\* .reduce((acc, { fragments }) => Object.assign(acc, fragments), {}) over
\* plain maps: fragments is the definition text under the key "fragments",
\* or undefined, and assigning undefined adds nothing
RECURSIVE mergeReduceMaps(_, _)
mergeReduceMaps(acc, maps) ==
  IF maps = <<>> THEN acc
  ELSE mergeReduceMaps(
         IF Has(maps[1], <<"fragments">>)
           THEN ObjectAssign(acc, [i \in DOMAIN Get(maps[1], <<"fragments">>) |->
                                    << <<ToString(i - 1)>>,
                                       <<Get(maps[1], <<"fragments">>)[i]>> >>])
           ELSE acc,
         Tail(maps))

\* mergeFragments(ops.map(op => op.fragments))
batchFragments(h, ops) ==
  mergeReduceMaps(<<>>, SelectSeq([k \in DOMAIN ops |-> h[ops[k]].fragments],
                                  asPartialMap))

\* ops.map(op => op.operation).join(' ') + ' ' + valuesOf(fragments).join(' ')
batchDoc(h, ops) ==
  join([k \in DOMAIN ops |-> h[ops[k]].operation], <<" ">>)
    \o <<" ">> \o join(valuesOf(batchFragments(h, ops)), <<" ">>)

batch(ops, variables) ==
  /\ impl = "SrcJs"
  /\ \A k \in DOMAIN ops :
       /\ ops[k] \in DOMAIN heap
       /\ heap[ops[k]].marks \cap { "__GRAPHQL_QUERY__", "__GRAPHQL_MUTATION__" } # {}
  /\ Len(calls) < MaxCalls
  /\ calls' = Append(calls,
       [request("batch", 0, batchDoc(heap, ops),
                IF variables.given THEN [kind |-> "object", map |-> variables.map]
                                   ELSE [kind |-> "null", map |-> <<>>])
          EXCEPT !.body.operations =
                   [given |-> TRUE,
                    names |-> [k \in DOMAIN ops |-> heap[ops[k]].operationName]],
                 !.ops = ops])
  /\ UNCHANGED << impl, documents, gqlHost, gqlHeaders, gqlIgnoreInvariants,
                  gqlClientMutationId, operationDefinitions,
                  fragmentDefinitions, definitions, IGNORE_INVARIANTS, heap,
                  closures, idCalls, last >>

Settlement(status, value) == [status |-> status, value |-> value]

\* a handler that never looks at errors
SrcQueryThen_ErrorsUnread(r) == Settlement("resolved", r.data)

\* r => r.errors ? Promise.reject(r.errors) : Promise.resolve(r.data)
SrcQueryThen(r) ==
  IF Truthy(r.errors.type) THEN Settlement("rejected", r.errors)
                           ELSE Settlement("resolved", r.data)

\* a handler that hands back the whole data
SrcMutationThen_WholeData(r) ==
  IF Truthy(r.errors.type) THEN Settlement("rejected", r.errors)
                           ELSE Settlement("resolved", r.data)

\* r => r.errors ? Promise.reject(r.errors) : Promise.resolve(r.data.payload)
SrcMutationThen(r) ==
  IF Truthy(r.errors.type) THEN Settlement("rejected", r.errors)
  ELSE IF ~Truthy(r.data.type) THEN Settlement("rejected", TypeError)
  ELSE Settlement("resolved", PayloadOf(r.data))

----------------------------------------------------------------------------
(* part_001: the dispatcher that sends operations built by part_002 *)

LitGraphqlResult(isMutation, r) ==
  IF Truthy(r.errors.type) THEN Settlement("rejected", r.errors)
  ELSE IF ~isMutation THEN Settlement("resolved", r.data)
  ELSE IF ~Truthy(r.data.type) THEN Settlement("rejected", TypeError)
  ELSE Settlement("resolved", PayloadOf(r.data))

graphql(i, opVars, token) ==
  /\ impl = "Literate"
  /\ i \in DOMAIN heap
  /\ heap[i].marks \cap { "__GRAPHQL_QUERY__", "__GRAPHQL_MUTATION__" } # {}
  /\ Len(calls) < MaxCalls
  /\ LET isMutation == "__GRAPHQL_MUTATION__" \in heap[i].marks
         url == IF Truthy(token) THEN "https://chi.bustle.com/authorized"
                                 ELSE "https://chi.bustle.com/"
         variables ==
           IF isMutation
             THEN IF opVars.given THEN [kind |-> "input", map |-> opVars.map]
                                ELSE [kind |-> "object", map |-> <<>>]
             ELSE IF opVars.given THEN [kind |-> "object", map |-> opVars.map]
                                ELSE [kind |-> "null", map |-> <<>>]
     IN  calls' = Append(calls,
           Fetch(Call(IF isMutation THEN "mutation" ELSE "query", i, url,
                      << <<"Accept", "application/json">>,
                         <<"Authorization", token>>,
                         <<"Content-Type", "application/json">> >>,
                      heap[i].str, variables, "pending", JsUndefined)))
  /\ UNCHANGED << impl, documents, gqlHost, gqlHeaders, gqlIgnoreInvariants,
                  gqlClientMutationId, operationDefinitions,
                  fragmentDefinitions, definitions, IGNORE_INVARIANTS, heap,
                  closures, idCalls, last >>

----------------------------------------------------------------------------
(* The transport answers: fetch resolves, r.json() parses, the handler runs *)

Respond(c, r) ==
  /\ c \in DOMAIN calls /\ calls[c].status = "pending"
  /\ calls[c].kind \in { "query", "mutation" }
  /\ LET s == IF impl = "Literate"
                THEN LitGraphqlResult(calls[c].kind = "mutation", r)
              ELSE IF calls[c].kind = "mutation" THEN SrcMutationThen(r)
              ELSE SrcQueryThen(r)
     IN  calls' = [calls EXCEPT ![c].status = s.status, ![c].value = s.value,
                     ![c].response =
                       [state |-> "json", data |-> r.data, errors |-> r.errors]]
  /\ UNCHANGED << impl, documents, gqlHost, gqlHeaders, gqlIgnoreInvariants,
                  gqlClientMutationId, operationDefinitions,
                  fragmentDefinitions, definitions, IGNORE_INVARIANTS, heap,
                  closures, idCalls, last >>

\* the answer to a batch is an array of { data, errors }:
\* r.map(({ data, errors }) => { if (errors) throw new Error(errors)
\*                               return data })
BatchThen(rs) ==
  LET failing == { i \in DOMAIN rs : Truthy(rs[i].errors.type) }
      first == CHOOSE i \in failing : \A j \in failing : i <= j
  IN  IF failing # {}
        THEN Settlement("rejected",
                        JsValue("Error", "undefined", rs[first].errors.items))
        ELSE Settlement("resolved",
                        JsValue("array", "undefined",
                                [i \in DOMAIN rs |-> rs[i].data.payload]))

BatchRespond(c, rs) ==
  /\ c \in DOMAIN calls /\ calls[c].status = "pending"
  /\ calls[c].kind = "batch"
  /\ LET s == BatchThen(rs)
     IN  calls' = [calls EXCEPT ![c].status = s.status, ![c].value = s.value,
                     ![c].response =
                       [state |-> "json",
                        data |-> JsValue("array", "undefined",
                                         [i \in DOMAIN rs |-> rs[i].data.payload]),
                        errors |-> JsValue("array", "undefined",
                                           [i \in DOMAIN rs |-> rs[i].errors.type])]]
  /\ UNCHANGED << impl, documents, gqlHost, gqlHeaders, gqlIgnoreInvariants,
                  gqlClientMutationId, operationDefinitions,
                  fragmentDefinitions, definitions, IGNORE_INVARIANTS, heap,
                  closures, idCalls, last >>

\* a callable that sends the request again when the transport fails
TransportFails_Retry(c, failure) ==
  /\ c \in DOMAIN calls /\ calls[c].status = "pending"
  /\ calls' = [calls EXCEPT ![c].status = "rejected", ![c].value = failure,
                 ![c].fetches = @ + 1,
                 ![c].failure = failure, ![c].response.state = "failed"]
  /\ UNCHANGED << impl, documents, gqlHost, gqlHeaders, gqlIgnoreInvariants,
                  gqlClientMutationId, operationDefinitions,
                  fragmentDefinitions, definitions, IGNORE_INVARIANTS, heap,
                  closures, idCalls, last >>

\* fetch rejects, or the body is no JSON: no handler of the chain takes a
\* rejection, so the future fails with that error
TransportFails(c, failure) ==
  /\ c \in DOMAIN calls /\ calls[c].status = "pending"
  /\ calls' = [calls EXCEPT ![c].status = "rejected", ![c].value = failure,
                 ![c].failure = failure, ![c].response.state = "failed"]
  /\ UNCHANGED << impl, documents, gqlHost, gqlHeaders, gqlIgnoreInvariants,
                  gqlClientMutationId, operationDefinitions,
                  fragmentDefinitions, definitions, IGNORE_INVARIANTS, heap,
                  closures, idCalls, last >>

----------
(* Initial state: the module has just been loaded *)

Impl(lib) == impl = lib

Init ==
  /\ impl \in { "SrcJs", "Literate" }
  /\ gqlHost = "undefined"
  /\ gqlHeaders = <<>>
  /\ gqlIgnoreInvariants = "undefined"
  /\ gqlClientMutationId = "undefined"
  /\ operationDefinitions = <<>>
  /\ fragmentDefinitions = <<>>
  /\ definitions = [operations |-> <<>>, fragments |-> <<>>]
  /\ IGNORE_INVARIANTS = "false"
  /\ heap = <<>>
  /\ closures = {}
  /\ calls = <<>>
  /\ idCalls = 0
  /\ documents = <<>>
  /\ last = Outcome("load", "ok", 0, <<>>, <<>>)

FragmentArgs == { << <<"c", "p">>, Undefined >>, << <<"b">>, <<"T">> >> }
QueryArgs == { << <<"b">>, [given |-> TRUE, map |-> << <<"id", "ID!">> >>] >> }
MutationArgs == { << <<"c", "p">>, NoVarsDef >>, << <<"C", "p">>, NoVarsDef >> }

\* the built values meant for interpolation: fragments, unions, partials
Spreadable ==
  { i \in DOMAIN heap : heap[i].marks \cap { QUERY_PARTIAL, FRAGMENT } # {} }

Templates == Lits \X ValueLists(Spreadable)

\* composition with src.js: fragments, partials, unions, queries
\* the wide compositions stop at MaxComposed built values
Composed == Len(heap') <= MaxComposed

NextSrcJs ==
  \/ \E ig \in { "undefined", "true" } : configure("host", <<>>, ig, "undefined")
  \/ \E a \in FragmentArgs : SrcFragment1(a[1], a[2])
  \/ \E c \in closures, t \in Templates, keep \in BOOLEAN :
       SrcFragment2(c, t[1], t[2], keep) /\ Composed
  \/ \E a \in QueryArgs, t \in Templates : SrcQuery(a[1], a[2], t[1], t[2]) /\ Composed
  \/ \E t \in Templates : partial(t[1], t[2]) /\ Composed
  \/ \E v \in ValueLists(Spreadable) : union(v) /\ Composed

\* composition with part_002: fragments and queries
NextLiterate ==
  \/ ignoreInvariants
  \/ \E a \in FragmentArgs : LitFragment1(a[1], a[2])
  \/ \E c \in closures, t \in Templates, keep \in BOOLEAN :
       LitFragment2(c, t[1], t[2], keep) /\ Composed
  \/ \E a \in QueryArgs, t \in Templates : LitQuery(a[1], a[2], t[1], t[2]) /\ Composed

Next == NextSrcJs \/ NextLiterate

Spec == Init /\ [][Next]_vars

\* operations and fragments whose names meet after capitalization
OpsFragmentArgs == { << <<"C", "p">>, Undefined >> }
OpsTemplates == Lits \X { <<>> }

NextOps ==
  \/ \E ig \in { "undefined", "true" } : configure("host", <<>>, ig, "undefined")
  \/ \E a \in OpsFragmentArgs : SrcFragment1(a[1], a[2])
  \/ \E c \in closures, t \in OpsTemplates, keep \in BOOLEAN :
       SrcFragment2(c, t[1], t[2], keep) /\ Composed
  \/ \E a \in MutationArgs, t \in OpsTemplates :
       SrcMutation(a[1], a[2], t[1], t[2]) /\ Composed
  \/ \E a \in QueryArgs, t \in OpsTemplates : SrcQuery(a[1], a[2], t[1], t[2]) /\ Composed
  \/ ignoreInvariants
  \/ \E a \in OpsFragmentArgs : LitFragment1(a[1], a[2])
  \/ \E c \in closures, t \in OpsTemplates, keep \in BOOLEAN :
       LitFragment2(c, t[1], t[2], keep) /\ Composed
  \/ \E a \in MutationArgs, t \in OpsTemplates :
       LitMutation(a[1], a[2], t[1], t[2]) /\ Composed
  \/ \E a \in QueryArgs, t \in OpsTemplates : LitQuery(a[1], a[2], t[1], t[2]) /\ Composed

SpecOps == Init /\ [][NextOps]_vars

\* operations are built, invoked, and answered by the transport
CallsMutationArgs == { << <<"c", "p">>, NoVarsDef >> }

NextCalls ==
  \/ \E gen \in { "undefined", "gen" } : configure("host", <<>>, "undefined", gen)
  \/ \E a \in QueryArgs, t \in OpsTemplates : SrcQuery(a[1], a[2], t[1], t[2]) /\ Composed
  \/ \E a \in CallsMutationArgs, t \in OpsTemplates :
       SrcMutation(a[1], a[2], t[1], t[2]) /\ Composed
  \/ \E i \in DOMAIN heap, v \in Variables : SrcInvokeQuery(i, v)
  \/ \E i \in DOMAIN heap, v \in Variables : SrcInvokeMutation(i, v)
  \/ \E a \in QueryArgs, t \in OpsTemplates : LitQuery(a[1], a[2], t[1], t[2]) /\ Composed
  \/ \E a \in CallsMutationArgs, t \in OpsTemplates :
       LitMutation(a[1], a[2], t[1], t[2]) /\ Composed
  \/ \E i \in DOMAIN heap, v \in Variables, token \in { "undefined", "token" } :
       graphql(i, v, token)
  \/ \E c \in DOMAIN calls, r \in Responses : Respond(c, r)
  \/ \E c \in DOMAIN calls, f \in Failures : TransportFails(c, f)

SpecCalls == Init /\ [][NextCalls]_vars

\* the texts of operations: every shape of variablesDef, fragments, documents
TextQueryArgs ==
  { << <<"b">>, vd >> :
      vd \in { NoVarsDef, [given |-> TRUE, map |-> <<>>],
               [given |-> TRUE, map |-> << <<"id", "ID!">> >>],
               [given |-> TRUE, map |-> << <<"id", "ID!">>, <<"n", "Int">> >>] } }
TextMutationArgs ==
  { << <<"c", "p">>, vd >> :
      vd \in { NoVarsDef, [given |-> TRUE, map |-> << <<"key", "String!">> >>] } }

\* the built operations, and the lists of them document is given
Operations ==
  { i \in DOMAIN heap :
      heap[i].marks \cap { "__GRAPHQL_QUERY__", "__GRAPHQL_MUTATION__" } # {} }
OpLists == UNION { [1..k -> Operations] : k \in 0..MaxVals }

NextText ==
  \/ \E a \in FragmentArgs : SrcFragment1(a[1], a[2])
  \/ \E c \in closures, t \in Templates : SrcFragment2(c, t[1], t[2], FALSE) /\ Composed
  \/ \E a \in TextQueryArgs, t \in Templates : SrcQuery(a[1], a[2], t[1], t[2]) /\ Composed
  \/ \E a \in TextMutationArgs, t \in Templates :
       SrcMutation(a[1], a[2], t[1], t[2]) /\ Composed
  \/ \E a \in FragmentArgs : LitFragment1(a[1], a[2])
  \/ \E c \in closures, t \in Templates : LitFragment2(c, t[1], t[2], FALSE) /\ Composed
  \/ \E a \in TextQueryArgs, t \in Templates : LitQuery(a[1], a[2], t[1], t[2]) /\ Composed
  \/ \E a \in TextMutationArgs, t \in Templates :
       LitMutation(a[1], a[2], t[1], t[2]) /\ Composed
  \/ \E ops \in OpLists : document(ops)

SpecText == Init /\ [][NextText]_vars

\* src.js with one fragment name redefined while invariants are ignored, and
\* partials and queries over the fragments
PartialFragmentArgs == { << <<"b">>, <<"T">> >> }
FragmentTemplates == Lits \X { <<>>, << Raw(<<"10">>) >> }
FragmentsAndPartials ==
  UNION { [1..k -> { Ref(i) : i \in Spreadable }] : k \in 1..MaxVals }

NextPartial ==
  \/ configure("host", <<>>, "true", "undefined")
  \/ \E a \in PartialFragmentArgs : SrcFragment1(a[1], a[2])
  \/ \E c \in closures, t \in FragmentTemplates :
       SrcFragment2(c, t[1], t[2], FALSE)
  \/ \E l \in Lits, v \in FragmentsAndPartials : partial(l, v)
  \/ \E a \in QueryArgs, l \in Lits, v \in FragmentsAndPartials :
       SrcQuery(a[1], a[2], l, v)

\* part_002 as a build tool uses it: operations over fragments, some of them
\* under one name once invariants are ignored, and the document of a list
DocumentMutationArgs == { << <<"c", "p">>, NoVarsDef >> }

NextDocument ==
  \/ ignoreInvariants
  \/ \E a \in PartialFragmentArgs : LitFragment1(a[1], a[2])
  \/ \E c \in closures, t \in Templates : LitFragment2(c, t[1], t[2], FALSE) /\ Composed
  \/ \E a \in QueryArgs, t \in Templates : LitQuery(a[1], a[2], t[1], t[2]) /\ Composed
  \/ \E a \in DocumentMutationArgs, t \in Templates :
       LitMutation(a[1], a[2], t[1], t[2]) /\ Composed
  \/ \E ops \in OpLists : document(ops)

\* src.js under hot reload: callables are invoked and answered while the
\* fragments they spread are built again under the same name
InFlightVariables == { [given |-> TRUE, map |-> << <<"key", "k1">> >>] }
InFlightResponses ==
  { [data |-> JsValue("object", "P", <<>>), errors |-> JsNull],
    [data |-> JsNull, errors |-> JsValue("array", "undefined", <<"x">>)] }
InFlightTemplates ==
  Lits \X UNION { [1..k -> { Ref(i) : i \in Spreadable }] : k \in 0..1 }

NextInFlight ==
  \/ configure("host", <<>>, "true", "gen")
  \/ \E a \in PartialFragmentArgs : SrcFragment1(a[1], a[2])
  \/ \E c \in closures, t \in FragmentTemplates :
       SrcFragment2(c, t[1], t[2], FALSE) /\ Composed
  \/ \E a \in QueryArgs, t \in InFlightTemplates :
       SrcQuery(a[1], a[2], t[1], t[2]) /\ Composed
  \/ \E a \in CallsMutationArgs, t \in InFlightTemplates :
       SrcMutation(a[1], a[2], t[1], t[2]) /\ Composed
  \/ \E i \in DOMAIN heap, v \in InFlightVariables : SrcInvokeQuery(i, v)
  \/ \E i \in DOMAIN heap, v \in InFlightVariables : SrcInvokeMutation(i, v)
  \/ \E c \in DOMAIN calls, r \in InFlightResponses : Respond(c, r)
  \/ \E c \in DOMAIN calls, f \in Failures : TransportFails(c, f)

\* src.js batches: queries over fragments are built and sent together
BatchQueryArgs ==
  { << <<"b">>, [given |-> TRUE, map |-> << <<"id", "ID!">> >>] >>,
    << <<"c">>, NoVarsDef >> }
BatchAnswers == UNION { [1..k -> InFlightResponses] : k \in 0..MaxVals }

\* one batch is in flight at a time
Batched == Len(calls') <= MaxBatches

NextBatch ==
  \/ configure("host", <<>>, "undefined", "undefined")
  \/ \E a \in PartialFragmentArgs : SrcFragment1(a[1], a[2])
  \/ \E c \in closures, t \in OpsTemplates :
       SrcFragment2(c, t[1], t[2], FALSE) /\ Composed
  \/ \E a \in BatchQueryArgs, t \in InFlightTemplates :
       SrcQuery(a[1], a[2], t[1], t[2]) /\ Composed
  \/ \E ops \in OpLists, v \in InFlightVariables : batch(ops, v) /\ Batched
  \/ \E c \in DOMAIN calls, rs \in BatchAnswers : BatchRespond(c, rs)
  \/ \E c \in DOMAIN calls, f \in Failures : TransportFails(c, f)

\* every builder of both libraries, over values built before
NextFrame ==
  \/ \E ig \in { "undefined", "true" } : configure("host", <<>>, ig, "undefined")
  \/ \E a \in FragmentArgs : SrcFragment1(a[1], a[2])
  \/ \E c \in closures, t \in InFlightTemplates :
       SrcFragment2(c, t[1], t[2], FALSE) /\ Composed
  \/ \E a \in QueryArgs, t \in InFlightTemplates :
       SrcQuery(a[1], a[2], t[1], t[2]) /\ Composed
  \/ \E a \in CallsMutationArgs, t \in InFlightTemplates :
       SrcMutation(a[1], a[2], t[1], t[2]) /\ Composed
  \/ \E l \in Lits, v \in FragmentsAndPartials : partial(l, v) /\ Composed
  \/ \E v \in FragmentsAndPartials : union(v) /\ Composed
  \/ \E ops \in OpLists, v \in InFlightVariables : batch(ops, v) /\ Batched
  \/ ignoreInvariants
  \/ \E a \in FragmentArgs : LitFragment1(a[1], a[2])
  \/ \E c \in closures, t \in InFlightTemplates :
       LitFragment2(c, t[1], t[2], FALSE) /\ Composed
  \/ \E a \in QueryArgs, t \in InFlightTemplates :
       LitQuery(a[1], a[2], t[1], t[2]) /\ Composed
  \/ \E a \in CallsMutationArgs, t \in InFlightTemplates :
       LitMutation(a[1], a[2], t[1], t[2]) /\ Composed
  \/ \E ops \in OpLists : document(ops)

InitSrcJs == Init /\ Impl("SrcJs")
InitLiterate == Init /\ Impl("Literate")

SpecPartial == InitSrcJs /\ [][NextPartial]_vars

SpecFrame == Init /\ [][NextFrame]_vars

SpecBatch == InitSrcJs /\ [][NextBatch]_vars

SpecInFlight == InitSrcJs /\ [][NextInFlight]_vars

SpecDocument == InitLiterate /\ [][NextDocument]_vars

\* a process that imported src.js
SpecSrcJs == InitSrcJs /\ [][NextSrcJs]_vars

\* a process that imported part_002
SpecLiterate == InitLiterate /\ [][NextLiterate]_vars

----------------------------------------------------------------------------
(* What the claims speak about *)

IsFragmentAt(i) == FRAGMENT \in heap[i].marks

IsOperationAt(i) ==
  heap[i].marks \cap { "__GRAPHQL_QUERY__", "__GRAPHQL_MUTATION__" } # {}

\* the values of a list that the implementation treats as fragment-bearing
Bearing(values) ==
  { p \in DOMAIN values :
      /\ values[p].ref # 0
      /\ IF Impl("SrcJs") THEN QUERY_PARTIAL \in heap[values[p].ref].marks
                          ELSE FRAGMENT \in heap[values[p].ref].marks }

\* the fragments reachable from built value i: itself when it is a fragment,
\* and those reachable through the fragment-bearing values it interpolates
RECURSIVE ReachFrom(_)
ReachFrom(i) ==
  (IF IsFragmentAt(i) THEN {i} ELSE {})
    \cup UNION { ReachFrom(heap[i].values[p].ref) : p \in Bearing(heap[i].values) }

ReachOf(values) == UNION { ReachFrom(values[p].ref) : p \in Bearing(values) }

NamesOf(refs) == { heap[j].name : j \in refs }

\* the definition text of fragment j
FragText(j) ==
  IF Impl("SrcJs") THEN Get(heap[j].fragments, heap[j].name)
                   ELSE heap[j].definition

\* the definition text a fragment built from (name, type, values) must have
IsOwnText(text, name, type, values) ==
  \E lit \in Lits :
    text = <<"fragment ">> \o name \o <<" on ">> \o type \o <<" ">>
             \o StringRaw(heap, Target(lit, Len(values)), values)

\* how often text occurs in doc
Count(text, doc) ==
  Cardinality({ i \in 1..(Len(doc) + 1 - Len(text)) :
                  SubSeq(doc, i, i + Len(text) - 1) = text })

----------------------------------------------------------------------------
(* C1.  For every Fragment F built by fragment(name, onType) from a        *)
(* template interpolating D1..Dn, F's fragment-definition mapping is       *)
(* merge(D1..Dn) plus name -> F's own definition text: its keys are F's    *)
(* own name and the names of the fragments reachable through the           *)
(* interpolated Fragments, Unions and Partials, and nothing else; with no  *)
(* interpolation it is the singleton {name: own text}.                     *)
(* As stated (of every Fragment of either implementation):                 *)
C1_AsStated ==
  \A i \in DOMAIN heap :
    IsFragmentAt(i) =>
      /\ Keys(heap[i].fragments)
           = { heap[i].name } \cup NamesOf(ReachOf(heap[i].values))
      /\ heap[i].values = <<>> => Keys(heap[i].fragments) = { heap[i].name }

(* C1 as amended: the statement holds of src.js's fragment; the fragment   *)
(* of part_002 keeps merge(D1..Dn) alone (name -> Fragment for every       *)
(* fragment reachable through the interpolated Fragments, its own name not *)
(* added) and holds its own definition text in F.definition.               *)
C1_SrcJs(i) ==
  LET F == heap[i]
      D == ReachOf(F.values)
  IN  /\ Keys(F.fragments) = { F.name } \cup NamesOf(D)
      /\ IsOwnText(Get(F.fragments, F.name), F.name, F.type, F.values)
      /\ \A k \in Keys(F.fragments) \ { F.name } :
           \E j \in D : heap[j].name = k /\ Get(F.fragments, k) = FragText(j)
      /\ F.values = <<>> => Len(F.fragments) = 1
      /\ F.str = <<"...">> \o F.name

C1_Literate(i) ==
  LET F == heap[i]
      D == ReachOf(F.values)
  IN  /\ Keys(F.fragments) = NamesOf(D)
      /\ \A k \in Keys(F.fragments) :
           Get(F.fragments, k) \in D /\ heap[Get(F.fragments, k)].name = k
      /\ IsOwnText(F.definition, F.name, F.on, F.values)
      /\ F.values = <<>> => F.fragments = <<>>
      /\ F.str = <<"...">> \o F.name

\* C1 as amended: every Fragment satisfies the statement of the
\* implementation that built it
C1_Amended ==
  \A i \in DOMAIN heap :
    IsFragmentAt(i) => IF Impl("SrcJs") THEN C1_SrcJs(i) ELSE C1_Literate(i)

\* a src.js fragment whose mapping holds a fragment it reaches only through
\* another value
C1_Witness ==
  /\ Impl("SrcJs")
  /\ \E i \in DOMAIN heap :
       /\ IsFragmentAt(i)
       /\ \E j \in ReachOf(heap[i].values) :
            /\ j \notin { heap[i].values[p].ref : p \in DOMAIN heap[i].values }
            /\ heap[j].name # heap[i].name
            /\ Has(heap[i].fragments, heap[j].name)

----------------------------------------------------------------------------
(* C2.  Diamond dependency: when an operation interpolates two values that *)
(* both reach the same fragment C (or C itself and a value that reaches    *)
(* C), C's definition text occurs exactly once in the operation's document *)
(* text.                                                                   *)
Diamond(i, j) ==
  \E p, q \in Bearing(heap[i].values) :
    /\ p # q
    /\ j \in ReachFrom(heap[i].values[p].ref)
    /\ j \in ReachFrom(heap[i].values[q].ref)

(* C2 as stated: a fragment an operation reaches along two of its          *)
(* interpolations occurs exactly once in the operation's document.         *)
C2_AsStated ==
  \A i \in DOMAIN heap :
    IsOperationAt(i) =>
      \A j \in DOMAIN heap :
        Diamond(i, j) => Count(FragText(j), heap[i].str) = 1

\* no fragment reachable from operation i carries j's name with another text
SoleDefinition(i, j) ==
  \A k \in ReachOf(heap[i].values) :
    heap[k].name = heap[j].name => FragText(k) = FragText(j)

(* C2 as amended: C's text occurs exactly once provided no fragment        *)
(* reachable from the operation carries C's name with a different text (a  *)
(* redefinition made while invariants are ignored, or in part_002 through  *)
(* a reused tag function); in every case it occurs at most once and the    *)
(* document holds exactly one definition per reachable fragment name.      *)
C2_Amended ==
  \A i \in DOMAIN heap :
    IsOperationAt(i) =>
      /\ \A j \in ReachOf(heap[i].values) :
           /\ Count(FragText(j), heap[i].str) <= 1
           /\ SoleDefinition(i, j) => Count(FragText(j), heap[i].str) = 1
      /\ \A n \in NamesOf(ReachOf(heap[i].values)) :
           Cardinality({ t \in { FragText(j) : j \in ReachOf(heap[i].values) } :
                           /\ Count(t, heap[i].str) = 1
                           /\ \E j \in ReachOf(heap[i].values) :
                                heap[j].name = n /\ FragText(j) = t }) = 1

\* an operation that reaches one fragment along two of its interpolations
C2_Witness ==
  \E i \in DOMAIN heap :
    /\ IsOperationAt(i)
    /\ \E j \in DOMAIN heap :
         /\ Diamond(i, j)
         /\ heap[i].values[1] # heap[i].values[2]
         /\ SoleDefinition(i, j)
         /\ Count(FragText(j), heap[i].str) = 1

----------------------------------------------------------------------------
(* C3.  With invariants not ignored, building a fragment under a name the  *)
(* Fragment Registry already holds throws at once, and the failed call     *)
(* leaves the registry as it was (src.js throws when the template is       *)
(* applied, part_002 when fragment(name) is called).                       *)
C3_SrcJsStep ==
  \A c \in closures :
    ( /\ c.lib = "SrcJs"
      /\ Has(fragmentDefinitions, c.name)
      /\ ~Truthy(gqlIgnoreInvariants)
      /\ \E t \in Templates, keep \in BOOLEAN : SrcFragment2(c, t[1], t[2], keep) )
    => /\ last' = Outcome("fragment", "throw", 0, c.name, <<>>)
       /\ fragmentDefinitions' = fragmentDefinitions
       /\ heap' = heap

C3_LiterateStep ==
  \A a \in FragmentArgs :
    ( /\ Has(definitions.fragments, a[1])
      /\ ~Truthy(IGNORE_INVARIANTS)
      /\ LitFragment1(a[1], a[2]) )
    => /\ last' = Outcome("fragment1", "throw", 0, a[1], <<>>)
       /\ definitions' = definitions
       /\ heap' = heap
       /\ closures' = closures

----------------------------------------------------------------------------
(* The registries and the ignore flag of whichever library is loaded *)
OperationRegistry ==
  IF Impl("SrcJs") THEN operationDefinitions ELSE definitions.operations

FragmentRegistry ==
  IF Impl("SrcJs") THEN fragmentDefinitions ELSE definitions.fragments

IgnoreMode ==
  IF Impl("SrcJs") THEN Truthy(gqlIgnoreInvariants) ELSE Truthy(IGNORE_INVARIANTS)

----------------------------------------------------------------------------
(* C4.  As stated: every successful query build registers its name in the  *)
(* operation registry, and with invariants not ignored a later query build *)
(* of a registered name throws and leaves the registry as it was.          *)
C4_QueryStep ==
  \A a \in QueryArgs :
    (\E t \in Templates : \/ SrcQuery(a[1], a[2], t[1], t[2])
                          \/ LitQuery(a[1], a[2], t[1], t[2]))
    => IF Has(OperationRegistry, a[1]) /\ ~IgnoreMode
         THEN /\ last' = Outcome("query", "throw", 0, a[1], <<>>)
              /\ OperationRegistry' = OperationRegistry
         ELSE /\ last'.status = "ok"
              /\ Has(OperationRegistry', a[1])
              /\ Get(OperationRegistry', a[1]) = last'.ref

\* C4 as stated: every query build registers, or is refused as a duplicate
C4_AsStated == [][C4_QueryStep]_vars

----------------------------------------------------------------------------
(* C5.  As stated: a successful mutation build registers the capitalized   *)
(* name in the operation registry; with invariants not ignored a mutation  *)
(* build whose name capitalizes to a registered key throws; mutation       *)
(* builds leave the Fragment Registry alone, fragment builds leave the     *)
(* operation registry alone and are refused only for their own registry.   *)
C5_MutationStep ==
  \A a \in MutationArgs :
    (\E t \in OpsTemplates : \/ SrcMutation(a[1], a[2], t[1], t[2])
                             \/ LitMutation(a[1], a[2], t[1], t[2]))
    => /\ FragmentRegistry' = FragmentRegistry
       /\ IF Has(OperationRegistry, capitalize(a[1])) /\ ~IgnoreMode
            THEN /\ last' = Outcome("mutation", "throw", 0, a[1], <<>>)
                 /\ OperationRegistry' = OperationRegistry
            ELSE /\ last'.status = "ok"
                 /\ Has(OperationRegistry', capitalize(a[1]))
                 /\ Get(OperationRegistry', capitalize(a[1])) = last'.ref

C5_FragmentStep ==
  \A a \in OpsFragmentArgs :
    ( \/ SrcFragment1(a[1], a[2])
      \/ LitFragment1(a[1], a[2])
      \/ \E c \in closures, t \in OpsTemplates, keep \in BOOLEAN :
           /\ c.name = a[1]
           /\ SrcFragment2(c, t[1], t[2], keep) \/ LitFragment2(c, t[1], t[2], keep) )
    => /\ OperationRegistry' = OperationRegistry
       /\ (last' # last /\ last'.status = "throw") => Has(FragmentRegistry, a[1])

\* C5 as stated: mutations are keyed by capitalized name in the operation
\* registry, and the two registries do not touch each other
C5_AsStated == [][C5_MutationStep /\ C5_FragmentStep]_vars

----------------------------------------------------------------------------
(* C6.  Name collisions in the Dependency Merger.                          *)

\* what fragment-bearing value d contributes to a merge, and under which keys
SuppliedKeys(d) ==
  IF Impl("SrcJs") THEN Keys(heap[d].fragments)
                   ELSE Keys(heap[d].fragments) \cup { heap[d].name }

Supplied(d, k) ==
  IF Has(heap[d].fragments, k) THEN Get(heap[d].fragments, k) ELSE d

\* the interpolations of value i that supply key k
Suppliers(i, k) ==
  { p \in Bearing(heap[i].values) : k \in SuppliedKeys(heap[i].values[p].ref) }

\* the keys of value i that come from the merge of its interpolations
MergedKeys(i) ==
  IF Impl("SrcJs") /\ IsFragmentAt(i)
    THEN Keys(heap[i].fragments) \ { heap[i].name }
    ELSE Keys(heap[i].fragments)

Earliest(P) == CHOOSE p \in P : \A q \in P : p <= q
Latest(P) == CHOOSE p \in P : \A q \in P : q <= p

(* As stated: when two values of the list supply different definitions     *)
(* under one name, the merge keeps the one that comes earlier in           *)
(* interpolation order.                                                    *)
C6_AsStated ==
  \A i \in DOMAIN heap :
    \A k \in MergedKeys(i) :
      /\ Suppliers(i, k) # {}
      /\ Get(heap[i].fragments, k)
           = Supplied(heap[i].values[Earliest(Suppliers(i, k))].ref, k)

(* C6 as amended: the merge keeps the definition supplied by the value     *)
(* that comes later in interpolation order (Object.assign overwrites); the *)
(* earlier one is dropped and no error is raised.                          *)
C6_LastWriterWins ==
  \A i \in DOMAIN heap :
    \A k \in MergedKeys(i) :
      /\ Suppliers(i, k) # {}
      /\ Get(heap[i].fragments, k)
           = Supplied(heap[i].values[Latest(Suppliers(i, k))].ref, k)

\* a value built from two interpolations that disagree about one name
C6_Witness ==
  \E i \in DOMAIN heap :
    \E k \in MergedKeys(i) :
      \E p, q \in Suppliers(i, k) :
        /\ p < q
        /\ Supplied(heap[i].values[p].ref, k) # Supplied(heap[i].values[q].ref, k)
        /\ last.ref = i /\ last.status = "ok"

----------------------------------------------------------------------------
(* C7.  union(A, B) stringifies to "__typename ...A ...B", members in      *)
(* argument order; its mapping has the keys of A's and B's mappings, each  *)
(* with a definition one of them supplies; union never throws, and union() *)
(* stringifies to "__typename " with an empty mapping.                     *)
SpreadText(i) ==
  IF IsFragmentAt(i) THEN <<"...">> \o heap[i].name ELSE heap[i].str

RECURSIVE SpaceJoined(_)
SpaceJoined(members) ==
  IF members = <<>> THEN <<>>
  ELSE IF Len(members) = 1 THEN SpreadText(members[1].ref)
  ELSE SpreadText(members[1].ref) \o <<" ">> \o SpaceJoined(Tail(members))

\* C7: the text and the mapping of the union built last
C7_Union ==
  last.call = "union" =>
    LET U == heap[last.ref]
        members == last.args
    IN  /\ last.status = "ok"
        /\ U.str = <<"__typename ">> \o SpaceJoined(members)
        /\ Keys(U.fragments)
             = UNION { Keys(heap[members[p].ref].fragments) : p \in DOMAIN members }
        /\ \A k \in Keys(U.fragments) :
             \E p \in DOMAIN members :
               /\ Has(heap[members[p].ref].fragments, k)
               /\ Get(U.fragments, k) = Get(heap[members[p].ref].fragments, k)
        /\ members = <<>> => U.str = <<"__typename ">> /\ U.fragments = <<>>

\* the union of two different fragments has just been built
C7_Witness ==
  /\ last.call = "union" /\ Len(last.args) = 2
  /\ IsFragmentAt(last.args[1].ref) /\ IsFragmentAt(last.args[2].ref)
  /\ heap[last.args[1].ref].name # heap[last.args[2].ref].name
  /\ heap[last.ref].str
       = <<"__typename ", "...">> \o heap[last.args[1].ref].name
           \o <<" ", "...">> \o heap[last.args[2].ref].name

----------------------------------------------------------------------------
(* Futures whose request the transport has answered with parsed JSON *)
Callables(kind) ==
  { c \in DOMAIN calls : /\ Impl("SrcJs") /\ calls[c].kind = kind
                          /\ calls[c].response.state = "json" }

Answered(kind) ==
  { c \in DOMAIN calls : calls[c].kind = kind /\ calls[c].response.state = "json" }

IsArray(e) == e.type = "array"
NonEmptyArray(e) == IsArray(e) /\ e.items # <<>>

(* C8.  As stated: the future of a query callable fails exactly when the   *)
(* response carries a non-empty errors array, then with the raw errors     *)
(* value; when errors is null or an empty array it resolves to data.       *)
C8_AsStated ==
  \A c \in Callables("query") :
    LET r == calls[c].response
    IN  /\ calls[c].status = "rejected" <=> NonEmptyArray(r.errors)
        /\ NonEmptyArray(r.errors) => calls[c].value = r.errors
        /\ (r.errors = JsNull \/ (IsArray(r.errors) /\ r.errors.items = <<>>))
             => calls[c].status = "resolved" /\ calls[c].value = r.data

(* C8 as amended: the future of a query callable fails exactly when the    *)
(* response's errors field is any array, the empty array included (every   *)
(* array is truthy), then with the raw errors value; when errors is null   *)
(* or absent it resolves to the response's data field.                     *)
C8_FailsOnAnyErrorsArray ==
  \A c \in Callables("query") :
    LET r == calls[c].response
    IN  /\ calls[c].status = "rejected" <=> IsArray(r.errors)
        /\ IsArray(r.errors) => calls[c].value = r.errors
        /\ r.errors \in { JsNull, JsUndefined }
             => calls[c].status = "resolved" /\ calls[c].value = r.data

\* a query's future has failed with the empty errors array of its response
C8_Witness ==
  \E c \in Callables("query") :
    /\ calls[c].response.errors = JsValue("array", "undefined", <<>>)
    /\ calls[c].status = "rejected"
    /\ calls[c].value = JsValue("array", "undefined", <<>>)

----------------------------------------------------------------------------
(* C9.  After configure(), each invocation of a mutation callable with     *)
(* variables calls the id generator exactly once and hands the transport   *)
(* variables whose single field input is the object { clientMutationId:    *)
(* id, ...variables }: the keys of variables with their values, and        *)
(* clientMutationId with the generated id unless variables sets it; with   *)
(* no generator configured the id is 'No ID Provided'.  Nothing else calls *)
(* the generator.                                                          *)
C9_InvokeStep ==
  \A i \in DOMAIN heap, v \in Variables :
    (gqlClientMutationId # "undefined" /\ SrcInvokeMutation(i, v))
    => /\ idCalls' = idCalls + 1
       /\ LET c == calls'[Len(calls')]
              id == IF gqlClientMutationId = noId
                      THEN "No ID Provided"
                      ELSE "id" \o ToString(idCalls')
          IN  /\ c.kind = "mutation" /\ c.status = "pending"
              /\ c.variables.kind = "input"
              /\ Keys(c.variables.map) = Keys(v.map) \cup { "clientMutationId" }
              /\ \A k \in Keys(v.map) : Get(c.variables.map, k) = Get(v.map, k)
              /\ ~Has(v.map, "clientMutationId")
                   => Get(c.variables.map, "clientMutationId") = id
              /\ c.body.variables
                   = <<"{\"input\":">> \o StringifyMap(c.variables.map) \o <<"}">>

C9_OnlyInvocationsGenerate ==
  idCalls' # idCalls
    => \E i \in DOMAIN heap, v \in Variables : SrcInvokeMutation(i, v)

\* C9: every step obeys the two statements above
C9_IdGeneratedOncePerCall ==
  [][C9_InvokeStep /\ C9_OnlyInvocationsGenerate]_vars

\* two invocations: the configured generator's second id next to a variable
C9_Witness ==
  /\ idCalls = 2
  /\ \E c \in DOMAIN calls :
       /\ calls[c].kind = "mutation" /\ calls[c].variables.kind = "input"
       /\ calls[c].variables.map
            = << <<"clientMutationId", "id2">>, <<"key", "k1">> >>

----------------------------------------------------------------------------
(* C10.  The future of a mutation callable resolves to the value under     *)
(* payload, not to the whole data, when the response is { data: { payload: *)
(* P }, errors: null }; a response that carries errors makes it fail with  *)
(* those errors.                                                           *)
C10_PayloadUnwrapped ==
  \A c \in Answered("mutation") :
    LET r == calls[c].response
    IN  /\ (r.errors = JsNull /\ r.data.type = "object")
             => /\ calls[c].status = "resolved"
                /\ calls[c].value = JsValue("object", "undefined", <<r.data.payload>>)
                /\ calls[c].value # r.data
        /\ IsArray(r.errors)
             => calls[c].status = "rejected" /\ calls[c].value = r.errors

\* a mutation's future has resolved to P out of { payload: P }
C10_Witness ==
  \E c \in Answered("mutation") :
    /\ calls[c].response.data = JsValue("object", "P", <<>>)
    /\ calls[c].response.errors = JsNull
    /\ calls[c].status = "resolved"
    /\ calls[c].value = JsValue("object", "undefined", <<"P">>)
    /\ Impl("SrcJs")

----------------------------------------------------------------------------
(* The texts of a built operation *)
OpText(i) == IF Impl("SrcJs") THEN heap[i].operation ELSE heap[i].definition

DocText(i) == IF Impl("SrcJs") THEN heap[i].queryString ELSE heap[i].document

\* the definition texts the operation's merged mapping holds, in key order
MergedTexts(i) ==
  [k \in DOMAIN heap[i].fragments |->
     IF Impl("SrcJs") THEN heap[i].fragments[k][2]
                      ELSE heap[heap[i].fragments[k][2]].definition]

DocumentOf(i, sep) ==
  /\ DocText(i) = OpText(i) \o sep \o join(MergedTexts(i), sep)
  /\ heap[i].str = DocText(i)
  /\ Keys(heap[i].fragments) = NamesOf(ReachOf(heap[i].values))

(* C11.  As stated: for every built Query or Mutation, documentText =       *)
(* operationText + "\n\n" + join("\n\n", values(merged)), merged holding    *)
(* the fragments reachable from the body and no other, and the operation   *)
(* stringifies to documentText.                                            *)
C11_AsStated ==
  \A i \in DOMAIN heap : IsOperationAt(i) => DocumentOf(i, <<"\n\n">>)

(* C11 as amended: as stated for part_002; for src.js the separator is one *)
(* space: queryString = operation + " " + join(" ", values(merged)), with  *)
(* the space after the operation also when merged is empty.                *)
C11_DocumentText ==
  \A i \in DOMAIN heap :
    IsOperationAt(i) =>
      DocumentOf(i, IF Impl("SrcJs") THEN <<" ">> ELSE <<"\n\n">>)

\* a src.js mutation whose document carries two fragment definitions
C11_Witness ==
  /\ Impl("SrcJs")
  /\ \E i \in DOMAIN heap :
       /\ "__GRAPHQL_MUTATION__" \in heap[i].marks
       /\ Len(heap[i].fragments) = 2
       /\ heap[i].str = heap[i].operation \o <<" ">> \o heap[i].fragments[1][2]
                          \o <<" ">> \o heap[i].fragments[2][2]

----------------------------------------------------------------------------
(* C12.  The variable-declaration clause of a query. *)
IsQueryAt(i) == "__GRAPHQL_QUERY__" \in heap[i].marks

\* the variablesDef the query was built with, as a map (empty when omitted)
VarsDefOf(i) ==
  IF Impl("SrcJs") THEN heap[i].varsDef.map ELSE heap[i].variablesDef

Clause(m, colon, comma) ==
  IF m = <<>> THEN <<>>
  ELSE <<"(">> \o join([k \in DOMAIN m |-> <<"$", m[k][1], colon, m[k][2]>>],
                      <<comma>>) \o <<")">>

\* the operation text is "query", the name, the clause, the body
QueryTextWith(i, gap, clause) ==
  \E lit \in Lits :
    OpText(i) = <<"query ">> \o (IF Impl("SrcJs") THEN heap[i].operationName
                                                  ELSE heap[i].name)
                  \o gap \o clause \o <<" ">>
                  \o StringRaw(heap, Target(lit, Len(heap[i].values)),
                               heap[i].values)

NoFragmentSection(i) ==
  Bearing(heap[i].values) = {}
    => /\ heap[i].fragments = <<>>
       /\ \E sep \in { <<" ">>, <<"\n\n">> } : DocText(i) = OpText(i) \o sep

(* As stated: the clause is "(" + the entries "$" + key + ": " + type      *)
(* joined by ", " in insertion order + ")", and the empty string when      *)
(* variablesDef is empty or omitted; a query that interpolates no fragment *)
(* has an empty fragment section.                                          *)
C12_AsStated ==
  \A i \in DOMAIN heap :
    IsQueryAt(i) =>
      /\ \E gap \in { <<>>, <<" ">> } :
           QueryTextWith(i, gap, Clause(VarsDefOf(i), ": ", ", "))
      /\ NoFragmentSection(i)

(* C12 as amended: as stated for part_002; src.js renders the entries as   *)
(* "$" + key + ":" + type joined by "," with no spaces, and puts one space *)
(* between the name and the clause (also when the clause is empty).        *)
C12_VariableClause ==
  \A i \in DOMAIN heap :
    IsQueryAt(i) =>
      /\ IF Impl("SrcJs")
           THEN QueryTextWith(i, <<" ">>, Clause(VarsDefOf(i), ":", ","))
           ELSE QueryTextWith(i, <<>>, Clause(VarsDefOf(i), ": ", ", "))
      /\ NoFragmentSection(i)

\* a src.js query of two variables
C12_Witness ==
  /\ Impl("SrcJs")
  /\ \E i \in DOMAIN heap :
       /\ IsQueryAt(i)
       /\ Len(heap[i].varsDef.map) = 2
       /\ Count(<<"(", "$", "id", ":", "ID!", ",", "$", "n", ":", "Int", ")">>,
                heap[i].operation) = 1

----------------------------------------------------------------------------
(* C13.  The operation text of mutation(name, variablesDef) begins         *)
(* "mutation <Capitalized>($input: <Capitalized>Input!)", aliases the      *)
(* field as "payload: name(input: $input)", declares no other variable,    *)
(* and is fixed by the name and the body alone, whatever variablesDef is.  *)
MutationHeader(name) ==
  <<"mutation ">> \o <<Upper(name[1])>> \o Tail(name) \o <<"($input: ">>
    \o <<Upper(name[1])>> \o Tail(name) \o <<"Input", "!)">>

MutationAlias(name) == <<"payload: ">> \o name \o <<"(input: $input)">>

----------------------------------------------------------------------------
(* C14.  While invariants are ignored, building a fragment or an operation *)
(* under a name its registry already holds throws nothing, the registry    *)
(* entry of that name becomes the value just built, and every value built  *)
(* before is left as it was, with the text it had merged.                  *)
Overwrites(registry, name) ==
  /\ last'.status = "ok"
  /\ last'.name = name
  /\ last'.ref = Len(heap) + 1
  /\ Get(registry, name) = Len(heap) + 1
  /\ \A i \in DOMAIN heap : heap'[i] = heap[i]

C14_FragmentStep ==
  \A c \in closures :
    ( /\ IgnoreMode
      /\ Has(FragmentRegistry, c.name)
      /\ \E t \in Templates, keep \in BOOLEAN :
           \/ SrcFragment2(c, t[1], t[2], keep)
           \/ LitFragment2(c, t[1], t[2], keep) )
    => Overwrites(FragmentRegistry', c.name)

C14_FirstStageStep ==
  \A a \in FragmentArgs :
    (IgnoreMode /\ (SrcFragment1(a[1], a[2]) \/ LitFragment1(a[1], a[2])))
    => /\ last' = last
       /\ \E c \in closures' : c.name = a[1]

C14_QueryStep ==
  \A a \in QueryArgs :
    ( /\ IgnoreMode
      /\ Has(OperationRegistry, a[1])
      /\ \E t \in Templates : \/ SrcQuery(a[1], a[2], t[1], t[2])
                              \/ LitQuery(a[1], a[2], t[1], t[2]) )
    => Overwrites(OperationRegistry', a[1])

\* C14: every build under a registered name made while invariants are
\* ignored overwrites the entry and leaves the earlier values stale
C14_IgnoreModeOverwrites ==
  [][C14_FragmentStep /\ C14_FirstStageStep /\ C14_QueryStep]_vars

\* src.js: fragment b was rebuilt with another text after a value had merged
\* the first one; the registry holds the new one, the value the old text
C14_Witness ==
  /\ Impl("SrcJs")
  /\ IgnoreMode
  /\ last.call = "fragment" /\ last.status = "ok" /\ last.ref = Len(heap)
  /\ Get(fragmentDefinitions, last.name) = last.ref
  /\ \E i, j \in DOMAIN heap :
       /\ i < j /\ j < last.ref
       /\ IsFragmentAt(i) /\ heap[i].name = last.name
       /\ FragText(i) # FragText(last.ref)
       /\ ~IsFragmentAt(j)
       /\ Has(heap[j].fragments, last.name)
       /\ Get(heap[j].fragments, last.name) = FragText(i)

----------------------------------------------------------------------------
\* a partial(...) or union(...) call returned its value
PartialOrUnionStep ==
  /\ last'.call \in { "partial", "union" }
  /\ Len(heap') = Len(heap) + 1
  /\ last'.ref = Len(heap')

C15_Step ==
  PartialOrUnionStep =>
    /\ last'.status = "ok"
    /\ operationDefinitions' = operationDefinitions
    /\ fragmentDefinitions' = fragmentDefinitions
    /\ definitions' = definitions
    /\ \A n \in Keys(fragmentDefinitions') :
         Get(fragmentDefinitions', n) # last'.ref
    /\ \A n \in Keys(operationDefinitions') :
         Get(operationDefinitions', n) # last'.ref
    /\ \A i \in DOMAIN heap : heap'[i] = heap[i]

\* C15: a union(...) or partial call always returns a value, leaves the
\* operation and fragment registries as they were and registers nothing,
\* whatever the registries hold and whatever was built before
C15_UnnamedBuildersSkipRegistries == [][C15_Step]_vars

\* the same partial or union was built twice over a registered fragment
C15_Witness ==
  /\ last.call \in { "partial", "union" } /\ last.status = "ok"
  /\ last.ref = Len(heap)
  /\ fragmentDefinitions # <<>>
  /\ \E i \in DOMAIN heap :
       /\ i < last.ref
       /\ heap[i] = heap[last.ref]
       /\ \E p \in DOMAIN heap[i].values :
            /\ heap[i].values[p].ref # 0
            /\ IsFragmentAt(heap[i].values[p].ref)

----------------------------------------------------------------------------
(* C16.  partial`...` and the operations that interpolate a Partial. *)

\* built value i came from partial`...` (a union's text starts __typename)
IsPartialAt(i) ==
  /\ heap[i].marks = { QUERY_PARTIAL }
  /\ Head(heap[i].str) # "__typename "

\* the text of partial i is its literal text with every interpolated value
\* rendered as its spread text, and its mapping the merge of those values
PartialItself(i) ==
  /\ \E l \in Lits :
       heap[i].str =
         <<l, " ">> \o join([k \in DOMAIN heap[i].values |->
                               ToStr(heap, heap[i].values[k])], <<" ">>)
                   \o (IF heap[i].values = <<>> THEN <<>> ELSE <<" ">>)
  /\ Keys(heap[i].fragments) = NamesOf(ReachOf(heap[i].values))
  /\ \A n \in Keys(heap[i].fragments) :
       \E j \in ReachOf(heap[i].values) :
         heap[j].name = n /\ FragText(j) = Get(heap[i].fragments, n)
  /\ "name" \notin DOMAIN heap[i]
  /\ \A n \in Keys(fragmentDefinitions) : Get(fragmentDefinitions, n) # i

\* the interpolations of operation i that are partials
PartialsOf(i) ==
  { p \in Bearing(heap[i].values) : IsPartialAt(heap[i].values[p].ref) }

(* C16 as stated: an operation interpolating a Partial inlines the         *)
(* Partial's text and its document contains the definition of every        *)
(* fragment reachable through the Partial.                                 *)
C16_AsStated ==
  /\ \A i \in DOMAIN heap : IsPartialAt(i) => PartialItself(i)
  /\ \A i \in DOMAIN heap :
       IsOperationAt(i) =>
         \A p \in PartialsOf(i) :
           /\ Count(heap[heap[i].values[p].ref].str, OpText(i)) >= 1
           /\ \A j \in ReachFrom(heap[i].values[p].ref) :
                Count(FragText(j), DocText(i)) >= 1

(* C16 as amended: the document contains the definition of a fragment      *)
(* reachable through the Partial provided no fragment the operation        *)
(* reaches carries that name with another text (a redefinition made while  *)
(* invariants are ignored); a same-named fragment merged later replaces    *)
(* it.  The document holds one definition per reachable fragment name and  *)
(* none for the Partial.                                                   *)
C16_PartialInlined ==
  /\ \A i \in DOMAIN heap : IsPartialAt(i) => PartialItself(i)
  /\ \A i \in DOMAIN heap :
       IsOperationAt(i) =>
         /\ \A p \in PartialsOf(i) :
              /\ Count(heap[heap[i].values[p].ref].str, OpText(i)) >= 1
              /\ \A j \in ReachFrom(heap[i].values[p].ref) :
                   SoleDefinition(i, j) => Count(FragText(j), DocText(i)) = 1
         /\ Count(<<"fragment ">>, DocText(i))
              = Cardinality(NamesOf(ReachOf(heap[i].values)))

\* a query interpolating a partial that spreads a fragment: the partial's
\* text is in the operation and the fragment's definition in the document
C16_Witness ==
  \E i \in DOMAIN heap :
    /\ IsQueryAt(i)
    /\ \E p \in PartialsOf(i) :
         /\ ReachFrom(heap[i].values[p].ref) # {}
         /\ Count(heap[heap[i].values[p].ref].str, OpText(i)) = 1
         /\ \A j \in ReachFrom(heap[i].values[p].ref) :
              /\ Count(<<"...">> \o heap[j].name, heap[heap[i].values[p].ref].str) = 1
              /\ Count(FragText(j), DocText(i)) = 1

----------------------------------------------------------------------------
(* C17.  document(ops) of part_002. *)

\* the fragments the operations of document d reach
DocReach(d) ==
  UNION { ReachOf(heap[d.ops[p]].values) : p \in DOMAIN d.ops }

\* the last operation of d.ops named n
LastNamed(d, n) ==
  d.ops[CHOOSE p \in DOMAIN d.ops :
          /\ heap[d.ops[p]].name = n
          /\ \A q \in DOMAIN d.ops : q > p => heap[d.ops[q]].name # n]

\* what the last operation of d.ops that maps fragment name n maps it to
LastSupplied(d, n) ==
  Get(heap[d.ops[CHOOSE p \in DOMAIN d.ops :
                   /\ Has(heap[d.ops[p]].fragments, n)
                   /\ \A q \in DOMAIN d.ops :
                        q > p => ~Has(heap[d.ops[q]].fragments, n)]].fragments,
      n)

(* C17 as stated, of the documents made while invariants are ignored:      *)
(* the operations map holds every operation of ops, the fragments map      *)
(* every fragment they reach, and the text holds every operation           *)
(* definition and every reached fragment definition exactly once.          *)
C17_AsStated ==
  IgnoreMode =>
    \A k \in DOMAIN documents :
      LET d == documents[k] IN
        /\ \A p \in DOMAIN d.ops :
             /\ \E n \in Keys(d.operations) : Get(d.operations, n) = d.ops[p]
             /\ Count(heap[d.ops[p]].definition, d.document) = 1
        /\ \A j \in DocReach(d) :
             /\ \E n \in Keys(d.fragments) : Get(d.fragments, n) = j
             /\ Count(heap[j].definition, d.document) = 1

(* C17 as amended: both maps are keyed by name.  operations holds, per     *)
(* operation name in ops, the last operation of that name; fragments       *)
(* holds, per reached fragment name, what the last operation mapping that  *)
(* name maps it to; the text is the operation definitions, a blank line,   *)
(* the fragment definitions, one per key.  An operation or fragment whose  *)
(* name no other listed operation or reached fragment carries with         *)
(* another definition occurs exactly once, however many operations share   *)
(* it.                                                                     *)
C17_Document ==
  \A k \in DOMAIN documents :
    LET d == documents[k] IN
      /\ Keys(d.operations) = { heap[d.ops[p]].name : p \in DOMAIN d.ops }
      /\ \A n \in Keys(d.operations) : Get(d.operations, n) = LastNamed(d, n)
      /\ Keys(d.fragments) = NamesOf(DocReach(d))
      /\ \A n \in Keys(d.fragments) : Get(d.fragments, n) = LastSupplied(d, n)
      /\ Len(d.operations) = Cardinality(Keys(d.operations))
      /\ Len(d.fragments) = Cardinality(Keys(d.fragments))
      /\ d.document =
           join([i \in DOMAIN d.operations |->
                   heap[d.operations[i][2]].definition], <<"\n\n">>)
             \o <<"\n\n">>
             \o join([i \in DOMAIN d.fragments |->
                       heap[d.fragments[i][2]].definition], <<"\n\n">>)
      /\ d.str = d.document
      /\ \A p \in DOMAIN d.ops :
           (\A q \in DOMAIN d.ops :
              heap[d.ops[q]].name = heap[d.ops[p]].name
                => heap[d.ops[q]].definition = heap[d.ops[p]].definition)
           => Count(heap[d.ops[p]].definition, d.document) = 1
      /\ \A j \in DocReach(d) :
           (\A i \in DocReach(d) :
              heap[i].name = heap[j].name
                => heap[i].definition = heap[j].definition)
           => Count(heap[j].definition, d.document) = 1

\* the document of a query and a mutation that spread the same fragment
C17_Witness ==
  \E k \in DOMAIN documents :
    LET d == documents[k] IN
      /\ Len(d.ops) = 2
      /\ heap[d.ops[1]].name # heap[d.ops[2]].name
      /\ Len(d.operations) = 2
      /\ \E j \in DOMAIN heap :
           /\ j \in ReachOf(heap[d.ops[1]].values)
           /\ j \in ReachOf(heap[d.ops[2]].values)
           /\ Len(d.fragments) = 1
           /\ Count(heap[j].definition, d.document) = 1
           /\ Count(heap[d.ops[1]].definition, d.document) = 1
           /\ Count(heap[d.ops[2]].definition, d.document) = 1

----------------------------------------------------------------------------
\* a template application returned a Fragment while invariants were on
FragmentBuiltStep ==
  /\ ~IgnoreMode
  /\ last'.call = "fragment" /\ last'.status = "ok"
  /\ Len(heap') = Len(heap) + 1
  /\ last'.ref = Len(heap')

(* C18.  As stated: with invariants on, whatever the order of first-stage  *)
(* calls and template applications, a Fragment is built and registered     *)
(* only under a name no earlier Fragment carries, so at most one per name. *)
C18_AsStated ==
  [][FragmentBuiltStep =>
       /\ ~Has(FragmentRegistry, last'.name)
       /\ \A i \in DOMAIN heap :
            IsFragmentAt(i) => heap[i].name # last'.name]_vars

----------------------------------------------------------------------------
(* C19.  No retries. *)

\* the invocations that got as far as request(...): a mutation callable
\* invoked with no id generator configured throws before it
Sent == { c \in DOMAIN calls : calls[c].status # "threw" }

C19_OnceStep ==
  \A c \in DOMAIN calls :
    /\ calls'[c].fetches = calls[c].fetches
    /\ calls'[c].body = calls[c].body
    /\ calls[c].status # "pending" => calls'[c] = calls[c]

\* C19: every invocation that reaches the transport calls it exactly once,
\* none calls it again later, and when the transport fails the future is
\* rejected with the transport's own failure value
C19_NoRetries ==
  /\ [](\A c \in DOMAIN calls :
         /\ calls[c].fetches = (IF c \in Sent THEN 1 ELSE 0)
         /\ calls[c].response.state = "failed" =>
              /\ calls[c].status = "rejected"
              /\ calls[c].value = calls[c].failure
              /\ calls[c].failure \in Failures)
  /\ [][C19_OnceStep]_vars

\* src.js: a query callable and a mutation callable have both been failed
\* by the transport, one by the network and one by a body that is no JSON
C19_Witness ==
  /\ Impl("SrcJs")
  /\ \E c, e \in DOMAIN calls :
       /\ calls[c].kind = "query" /\ calls[e].kind = "mutation"
       /\ calls[c].response.state = "failed"
       /\ calls[e].response.state = "failed"
       /\ calls[c].value # calls[e].value
       /\ calls[c].fetches = 1 /\ calls[e].fetches = 1

----------------------------------------------------------------------------
(* C20.  Invocations in flight together and builder calls between them. *)

\* every request carries the text the operation was built with
ForwardsBuiltText ==
  \A c \in Sent :
    /\ calls[c].query = heap[calls[c].op].queryString
    /\ calls[c].body.query = heap[calls[c].op].queryString

\* two invocations of one kind that got the same answer end the same way
SameAnswerSameResult ==
  \A c, e \in Sent :
    ( /\ calls[c].kind = calls[e].kind
      /\ calls[c].response = calls[e].response
      /\ calls[c].failure = calls[e].failure )
    => /\ calls[c].status = calls[e].status
       /\ calls[c].value = calls[e].value

\* a step leaves every built value and every request as it was, and settles
\* or adds at most one invocation
C20_Step ==
  /\ \A i \in DOMAIN heap : heap'[i] = heap[i]
  /\ \A c \in DOMAIN calls :
       /\ calls'[c].query = calls[c].query
       /\ calls'[c].body = calls[c].body
  /\ \A c, e \in DOMAIN calls :
       (calls'[c] # calls[c] /\ calls'[e] # calls[e]) => c = e
  /\ Len(calls') # Len(calls) => \A c \in DOMAIN calls : calls'[c] = calls[c]

\* C20: whatever is built, rebuilt, invoked or answered in between, every
\* invocation sends the text fixed when its operation was built, and its
\* result is a function of its own answer alone
C20_InvocationsIndependent ==
  /\ [](ForwardsBuiltText /\ SameAnswerSameResult)
  /\ [][C20_Step]_vars

\* two invocations of a query are in flight or answered, one each way, after
\* the fragment the query spreads was rebuilt with another text: both sent
\* the text with the definition the query was built with
C20_Witness ==
  \E c, e \in Sent :
    /\ c # e
    /\ calls[c].op = calls[e].op
    /\ calls[c].kind = "query"
    /\ calls[c].status = "resolved" /\ calls[e].status = "rejected"
    /\ calls[c].query = calls[e].query
    /\ \E n \in Keys(heap[calls[c].op].fragments) :
         /\ Get(fragmentDefinitions, n) > calls[c].op
         /\ FragText(Get(fragmentDefinitions, n))
              # Get(heap[calls[c].op].fragments, n)
         /\ Count(Get(heap[calls[c].op].fragments, n), calls[c].body.query) = 1
         /\ Count(FragText(Get(fragmentDefinitions, n)), calls[c].body.query) = 0

----------------------------------------------------------------------------
(* C22.  batch(ops, variables). *)

Batches == { c \in DOMAIN calls : calls[c].kind = "batch" }

\* the fragment definitions the operations of batch c need, by name
RECURSIVE NeededBy(_, _)
NeededBy(acc, ops) ==
  IF ops = <<>> THEN acc
  ELSE NeededBy(ObjectAssign(acc, heap[ops[1]].fragments), Tail(ops))

\* the operation texts and the operation names go out in the order of ops
BatchInOrder(c) ==
  LET ops == calls[c].ops IN
    /\ calls[c].body.operations.given
    /\ calls[c].body.operations.names =
         [k \in DOMAIN ops |-> heap[ops[k]].operationName]
    /\ \E rest \in { SubSeq(calls[c].query, i, Len(calls[c].query)) :
                       i \in 1..(Len(calls[c].query) + 1) } :
         calls[c].query =
           join([k \in DOMAIN ops |-> heap[ops[k]].operation], <<" ">>)
             \o <<" ">> \o rest

(* C22 as stated: the document a batch sends is the operation texts in     *)
(* order followed by the merged fragment definitions of all its            *)
(* operations, each needed definition exactly once, and the operation      *)
(* names are sent in the order of ops.                                     *)
C22_AsStated ==
  \A c \in Batches :
    LET ops == calls[c].ops
        needed == NeededBy(<<>>, ops)
    IN  /\ BatchInOrder(c)
        /\ calls[c].body.query = calls[c].query
        /\ calls[c].query =
             join([k \in DOMAIN ops |-> heap[ops[k]].operation], <<" ">>)
               \o <<" ">> \o join(valuesOf(needed), <<" ">>)
        /\ \A k \in DOMAIN needed : Count(needed[k][2], calls[c].query) = 1

----------------------------------------------------------------------------
(* C21.  Built values stay as built; every merge starts empty. *)

\* a step keeps every built value, every document and the text of every
\* request as they are
C21_FrameStep ==
  /\ Len(heap') >= Len(heap)
  /\ \A i \in DOMAIN heap : heap'[i] = heap[i]
  /\ Len(documents') >= Len(documents)
  /\ \A k \in DOMAIN documents : documents'[k] = documents[k]
  /\ \A c \in DOMAIN calls : calls'[c].query = calls[c].query

\* the mapping of a built value names nothing but what the value itself
\* reaches: no merge began with what an earlier merge had gathered
StartsEmpty ==
  /\ \A i \in DOMAIN heap :
       Keys(heap[i].fragments) \subseteq NamesOf(ReachFrom(i))
  /\ \A k \in DOMAIN documents :
       Keys(documents[k].fragments) \subseteq NamesOf(DocReach(documents[k]))

\* C21: no builder call changes a value built before, and the mapping of
\* every value holds only names gathered from its own inputs
C21_BuiltValuesImmutable == [](StartsEmpty) /\ [][C21_FrameStep]_vars

\* a partial or union merged two fragments of different names: its mapping
\* has both, the first fragment's mapping still has its own entry alone
C21_Witness ==
  \E j \in DOMAIN heap :
    /\ heap[j].marks = { QUERY_PARTIAL }
    /\ Len(heap[j].values) = 2
    /\ heap[j].values[1].ref # 0 /\ heap[j].values[2].ref # 0
    /\ IsFragmentAt(heap[j].values[1].ref)
    /\ IsFragmentAt(heap[j].values[2].ref)
    /\ Cardinality(Keys(heap[j].fragments)) = 2
    /\ Keys(heap[heap[j].values[1].ref].fragments)
         = { heap[heap[j].values[1].ref].name }

====
